---- MODULE Spec2Model ----
(***************************************************************************)
(* The codebase store of the LLM code assistant (src/src/codebaseHandler.ts, *)
(* the second CodebaseHandler of that file): smartChunkContent, the        *)
(* processFile / clearCache database steps over the files and file_chunks  *)
(* tables, getRelevantFiles, getCodebaseStats and the processWorkspace     *)
(* pass.                                                                   *)
(*                                                                         *)
(* A string is a sequence of one-character strings, so that split, join,   *)
(* includes and the boundary patterns are computed, not assumed.           *)
(***************************************************************************)
EXTENDS Integers, Sequences, FiniteSets, TLC

VARIABLES
    encoding,      \* this.encoding: TRUE when the tiktoken encoder loaded, FALSE for the fallback
    files,         \* table files: a set of rows
    file_chunks,   \* table file_chunks: a set of rows
    lastFileId,    \* sqlite_sequence of files (AUTOINCREMENT): the largest id ever used
    calls,         \* the processFile calls made so far, by call number
    clear,         \* the clearCache calls: position of the one in flight, how many were made
    failures,      \* reads and database steps that have failed so far
    chunkIn,       \* arguments of the smartChunkContent call under study
    chunkOut,      \* its result
    rankIn,        \* arguments of the getRelevantFiles call under study
    rankOut,       \* its result
    ws,            \* the processWorkspace pass: its position, its list, its counters
    context,       \* the _createContext call under study: its query, the reads' fate, its result
    scan,          \* the getAllFiles call under study: the directory tree, its result
    streamlit,     \* extension.ts: streamlitPanel, streamlitProcess and the child processes spawned
    llm,           \* the manageContextWindow call under study: its arguments, its result
    chat           \* ChatViewProvider: _messages, the messages posted to the webview, the requests

vars == <<encoding, files, file_chunks, lastFileId, calls, clear,
          failures, chunkIn, chunkOut, rankIn, rankOut, ws, context, scan,
          streamlit, llm, chat>>

storeVars == <<files, file_chunks, lastFileId, calls, clear, failures, ws, context, scan>>

-----------------------------------------------------------------------------
(* Bounds of the model *)

\* longest content handed to smartChunkContent on its own
MaxLen == 5
\* largest maxTokens handed to smartChunkContent on its own
MaxChunkTokens == 2

-----------------------------------------------------------------------------
(* Strings *)

RECURSIVE SplitLoop(_, _, _, _)
SplitLoop(s, i, cur, acc) ==
    IF i > Len(s) THEN Append(acc, cur)
    ELSE IF s[i] = "\n" THEN SplitLoop(s, i + 1, <<>>, Append(acc, cur))
    ELSE SplitLoop(s, i + 1, Append(cur, s[i]), acc)

\* String.prototype.split('\n'): the empty string splits to one empty line
split(s) == SplitLoop(s, 1, <<>>, <<>>)

RECURSIVE join(_)
\* Array.prototype.join('\n')
join(ls) ==
    IF Len(ls) = 0 THEN <<>>
    ELSE IF Len(ls) = 1 THEN ls[1]
    ELSE ls[1] \o <<"\n">> \o join(Tail(ls))

\* String.prototype.startsWith
startsWith(s, p) == Len(s) >= Len(p) /\ SubSeq(s, 1, Len(p)) = p

\* String.prototype.includes
includes(s, p) == \E i \in 1..(Len(s) - Len(p) + 1) : SubSeq(s, i, i + Len(p) - 1) = p

UpperToLower ==
    [c \in {"A", "B", "C", "D", "F", "I", "M", "P", "R", "Y"} |->
        CASE c = "A" -> "a" [] c = "B" -> "b" [] c = "C" -> "c" [] c = "D" -> "d"
          [] c = "F" -> "f" [] c = "I" -> "i" [] c = "M" -> "m" [] c = "P" -> "p"
          [] c = "R" -> "r" [] c = "Y" -> "y"]

\* String.prototype.toLowerCase, on the letters the model's strings use
toLowerCase(s) == [i \in 1..Len(s) |-> IF s[i] \in DOMAIN UpperToLower THEN UpperToLower[s[i]] ELSE s[i]]

\* the regular expressions' \s
IsSpace(c) == c \in {" ", "\t", "\r", "\n"}

RECURSIVE SkipSpace(_)
\* what is left of a line after a leading ^\s*
SkipSpace(s) == IF Len(s) > 0 /\ IsSpace(s[1]) THEN SkipSpace(Tail(s)) ELSE s

RECURSIVE TrimEnd(_)
TrimEnd(s) == IF Len(s) > 0 /\ IsSpace(s[Len(s)]) THEN TrimEnd(SubSeq(s, 1, Len(s) - 1)) ELSE s

\* String.prototype.trim
trim(s) == TrimEnd(SkipSpace(s))

-----------------------------------------------------------------------------
(* countTokens *)

\* encoding.encode(text).length: the external tokenizer, taken at its finest
\* (one token per character)
EncodeLength(text) == Len(text)

\* Math.ceil(text.length / 4)
FallbackTokens(text) == (Len(text) + 3) \div 4

countTokens(text) == IF encoding THEN EncodeLength(text) ELSE FallbackTokens(text)

-----------------------------------------------------------------------------
(* smartChunkContent *)

ExtPy == <<".", "p", "y">>
ExtJs == <<".", "j", "s">>
ExtTs == <<".", "t", "s">>
ExtJava == <<".", "j", "a", "v", "a">>
ExtCpp == <<".", "c", "p", "p">>
ExtMd == <<".", "m", "d">>

KwDef == <<"d", "e", "f", " ">>
KwClass == <<"c", "l", "a", "s", "s", " ">>
KwImport == <<"i", "m", "p", "o", "r", "t", " ">>
KwFrom == <<"f", "r", "o", "m", " ">>
KwFunction == <<"f", "u", "n", "c", "t", "i", "o", "n", " ">>
KwConst == <<"c", "o", "n", "s", "t", " ">>
KwLet == <<"l", "e", "t", " ">>
KwVar == <<"v", "a", "r", " ">>
KwInterface == <<"i", "n", "t", "e", "r", "f", "a", "c", "e", " ">>
KwType == <<"t", "y", "p", "e", " ">>
KwPublic == <<"p", "u", "b", "l", "i", "c", " ">>
KwPrivate == <<"p", "r", "i", "v", "a", "t", "e", " ">>
KwProtected == <<"p", "r", "o", "t", "e", "c", "t", "e", "d", " ">>
KwStruct == <<"s", "t", "r", "u", "c", "t", " ">>
KwNamespace == <<"n", "a", "m", "e", "s", "p", "a", "c", "e", " ">>
KwInclude == <<"#", "i", "n", "c", "l", "u", "d", "e">>
KwRequire == <<"r", "e", "q", "u", "i", "r", "e", "(">>
Hash1 == <<"#">>
Quote3 == <<"\"", "\"", "\"">>
SlashStar == <<"/", "*">>
StarSlash == <<"*", "/">>
SlashSlash == <<"/", "/">>

\* /^\s*(k1|k2|...)/
MatchesKeyword(line, kws) == \E k \in kws : startsWith(SkipSpace(line), k)

\* /^\s*<open>.*<close>/
MatchesDelimited(line, open, close) ==
    LET rest == SkipSpace(line)
    IN  /\ startsWith(rest, open)
        /\ includes(SubSeq(rest, Len(open) + 1, Len(rest)), close)

\* /^\s*\/\*.*\*\// and /^\s*\/\/.*/
MatchesCComment(line) ==
    \/ MatchesDelimited(line, SlashStar, StarSlash)
    \/ startsWith(SkipSpace(line), SlashSlash)

\* patterns.some(pattern => pattern.test(line)), with boundaryPatterns[extension] || [/^\s*$/]
isBoundary(line, extension) ==
    CASE extension = ExtPy ->
            \/ MatchesKeyword(line, {KwDef, KwClass, KwImport, KwFrom})
            \/ startsWith(SkipSpace(line), Hash1)
            \/ MatchesDelimited(line, Quote3, Quote3)
      [] extension = ExtJs ->
            \/ MatchesKeyword(line, {KwFunction, KwClass, KwConst, KwLet, KwVar})
            \/ MatchesCComment(line)
      [] extension = ExtTs ->
            \/ MatchesKeyword(line, {KwFunction, KwClass, KwConst, KwLet, KwVar, KwInterface, KwType})
            \/ MatchesCComment(line)
      [] extension = ExtJava ->
            \/ MatchesKeyword(line, {KwPublic, KwPrivate, KwProtected, KwClass, KwInterface})
            \/ MatchesCComment(line)
      [] extension = ExtCpp ->
            \/ MatchesKeyword(line, {KwClass, KwStruct, KwNamespace, KwInclude})
            \/ MatchesCComment(line)
      [] OTHER -> SkipSpace(line) = <<>>

determineChunkType(content, extension) ==
    LET lowerContent == toLowerCase(content)
    IN  IF includes(lowerContent, KwClass) \/ includes(lowerContent, KwFunction)
           \/ includes(lowerContent, KwDef)
        THEN "class_function"
        ELSE IF includes(lowerContent, KwImport) \/ includes(lowerContent, KwInclude)
                \/ includes(lowerContent, KwRequire)
        THEN "imports"
        ELSE IF startsWith(trim(content), Hash1) \/ startsWith(trim(content), SlashSlash)
                \/ startsWith(trim(content), SlashStar)
        THEN "comments"
        ELSE IF extension = ExtMd /\ includes(content, Hash1)
        THEN "heading"
        ELSE "general"

\* a ChunkInfo whose endLine is one past its last line
MakeChunkEndOffByOne(currentChunk, currentTokens, startLine, extension) ==
    [content   |-> join(currentChunk),
     tokens    |-> currentTokens,
     startLine |-> startLine,
     endLine   |-> startLine + Len(currentChunk),
     chunkType |-> determineChunkType(join(currentChunk), extension)]

\* the ChunkInfo pushed for the lines gathered in currentChunk
MakeChunk(currentChunk, currentTokens, startLine, extension) ==
    [content   |-> join(currentChunk),
     tokens    |-> currentTokens,
     startLine |-> startLine,
     endLine   |-> startLine + Len(currentChunk) - 1,
     chunkType |-> determineChunkType(join(currentChunk), extension)]

\* a test that closes a chunk at boundary lines only
ClosesAtBoundaryOnly(line, extension, currentTokens, maxTokens) ==
    isBoundary(line, extension) /\ 2 * currentTokens > maxTokens

\* a test that closes a chunk at every boundary line, however full the chunk
ClosesAtEveryBoundary(line, extension, currentTokens, maxTokens) ==
    \/ isBoundary(line, extension)
    \/ currentTokens + countTokens(line) > maxTokens

\* a chunk is closed before this line: (boundary and more than half full) or overflow
ClosesChunk(line, extension, currentTokens, maxTokens) ==
    \/ isBoundary(line, extension) /\ 2 * currentTokens > maxTokens
    \/ currentTokens + countTokens(line) > maxTokens

\* a close that drops the line it happens at
RestartChunkDropsLine(line) == <<>>

\* currentChunk = [line]: on a close, the lines the next chunk starts with
RestartChunk(line) == <<line>>

\* chunks.push(...) guarded by currentChunk.length > 0
PushChunk(chunks, currentChunk, currentTokens, startLine, extension) ==
    IF Len(currentChunk) > 0
    THEN Append(chunks, MakeChunk(currentChunk, currentTokens, startLine, extension))
    ELSE chunks

RECURSIVE ChunkLoop(_, _, _, _, _, _, _, _)
\* the for loop over lines (0-based i) and the final push
ChunkLoop(lines, i, chunks, currentChunk, currentTokens, startLine, extension, maxTokens) ==
    IF i >= Len(lines)
    THEN PushChunk(chunks, currentChunk, currentTokens, startLine, extension)
    ELSE LET line == lines[i + 1]
             lineTokens == countTokens(line)
         IN  IF ClosesChunk(line, extension, currentTokens, maxTokens)
             THEN ChunkLoop(lines, i + 1,
                            PushChunk(chunks, currentChunk, currentTokens, startLine, extension),
                            RestartChunk(line), lineTokens, i, extension, maxTokens)
             ELSE ChunkLoop(lines, i + 1, chunks, Append(currentChunk, line),
                            currentTokens + lineTokens, startLine, extension, maxTokens)

smartChunkContent(content, extension, maxTokens) ==
    ChunkLoop(split(content), 0, <<>>, <<>>, 0, 0, extension, maxTokens)

-----------------------------------------------------------------------------
(* smartChunkContent on its own: every content, extension and maxTokens of  *)
(* the bounded sets                                                          *)

ChunkAlphabet == {"#", "x", "\n"}

RECURSIVE StringsUpTo(_, _)
\* the strings over alphabet of length at most n
StringsUpTo(alphabet, n) ==
    IF n = 0 THEN {<<>>}
    ELSE LET shorter == StringsUpTo(alphabet, n - 1)
         IN  shorter \cup {Append(s, c) : s \in {t \in shorter : Len(t) = n - 1}, c \in alphabet}

\* .py has boundary patterns, .md has none (the /^\s*$/ fallback)
ChunkExtensions == {ExtPy, ExtMd}

\* no _createContext call has been made
ContextIdle == context = [query |-> <<>>, reads |-> "ok", done |-> FALSE, text |-> <<>>]

\* no getAllFiles call has been made
ScanIdle ==
    scan = [tree |-> [name |-> <<>>, kind |-> "dir", statOk |-> TRUE, readable |-> TRUE,
                      items |-> <<>>],
            done |-> FALSE, files |-> <<>>]

\* no panel has been opened and no Streamlit process spawned
StreamlitIdle ==
    streamlit = [panel |-> FALSE, process |-> 0, procs |-> <<>>, active |-> TRUE]

\* no manageContextWindow call has been made
LlmIdle == llm = [messages |-> <<>>, maxTokens |-> 0, done |-> FALSE, kept |-> <<>>]

\* the chat view has received no message
ChatIdle == chat = [messages |-> <<>>, posted |-> <<>>, reqs |-> <<>>, cleared |-> 0]

\* no processWorkspace pass has been started
WorkspaceIdle ==
    ws = [pc |-> "idle", files |-> <<>>, i |-> 0, processedFiles |-> 0,
          cancelled |-> FALSE, seen |-> <<>>, outcome |-> "none", result |-> <<>>]

StoreIdle ==
    /\ files = {}
    /\ file_chunks = {}
    /\ lastFileId = 0
    /\ calls = <<>>
    /\ clear = [pc |-> "idle", made |-> 0, outcome |-> "none", quiet |-> TRUE]
    /\ failures = 0
    /\ WorkspaceIdle
    /\ ContextIdle
    /\ ScanIdle
    /\ StreamlitIdle
    /\ LlmIdle
    /\ ChatIdle

RankIdle ==
    /\ rankIn = [query |-> <<>>, maxTokens |-> 0]
    /\ rankOut = [done |-> FALSE, files |-> <<>>]

ChunkIdle ==
    /\ chunkIn = [content |-> <<>>, extension |-> ExtPy, maxTokens |-> 1]
    /\ chunkOut = [done |-> FALSE, chunks |-> <<>>]

\* smartChunkContent's default maxTokens
SourceMaxTokens == 2000

\* the Python source "def f():\n    return 1\n"
DefContent ==
    <<"d", "e", "f", " ", "f", "(", ")", ":", "\n",
      " ", " ", " ", " ", "r", "e", "t", "u", "r", "n", " ", "1", "\n">>

\* the calls of smartChunkContent studied: every short content over the
\* alphabet under a small maxTokens, and the Python source under the default
ChunkInputs ==
    [content : StringsUpTo(ChunkAlphabet, MaxLen),
     extension : ChunkExtensions,
     maxTokens : 1..MaxChunkTokens]
    \cup {[content |-> DefContent, extension |-> ExtPy, maxTokens |-> SourceMaxTokens]}

InitChunk ==
    /\ encoding \in BOOLEAN
    /\ chunkIn \in ChunkInputs
    /\ chunkOut = [done |-> FALSE, chunks |-> <<>>]
    /\ StoreIdle
    /\ RankIdle

\* one call of smartChunkContent
SmartChunk ==
    /\ ~chunkOut.done
    /\ chunkOut' = [done |-> TRUE,
                    chunks |-> smartChunkContent(chunkIn.content, chunkIn.extension, chunkIn.maxTokens)]
    /\ UNCHANGED <<encoding, streamlit, llm, chat, storeVars, chunkIn, rankIn, rankOut>>

NextChunk == SmartChunk

SpecChunk == InitChunk /\ [][NextChunk]_vars

ChunkContents(chunks) == [i \in 1..Len(chunks) |-> chunks[i].content]

\* C8: joining the chunks of smartChunkContent in index order with '\n' gives
\* back the content it was called on.
C8_RoundTrip ==
    chunkOut.done => join(ChunkContents(chunkOut.chunks)) = chunkIn.content

\* a call that closed at least one chunk and gathered several lines into one
C8_Witness ==
    /\ chunkOut.done
    /\ Len(chunkOut.chunks) >= 2
    /\ \E i \in 1..Len(chunkOut.chunks) : chunkOut.chunks[i].endLine > chunkOut.chunks[i].startLine

\* C9: the chunks' line ranges are contiguous, non-overlapping and cover the
\* file: the first starts at line 0, each next one starts right after the
\* previous one ends, none is empty, and the last ends at the last line.
C9_LineRanges ==
    chunkOut.done =>
        LET chunks == chunkOut.chunks
            n == Len(chunks)
        IN  /\ n > 0 => chunks[1].startLine = 0
            /\ \A i \in 1..n : chunks[i].startLine <= chunks[i].endLine
            /\ \A i \in 2..n : chunks[i].startLine = chunks[i - 1].endLine + 1
            /\ n > 0 => chunks[n].endLine = Len(split(chunkIn.content)) - 1

\* a call that returned three chunks or more, one closed at a boundary line
C9_Witness ==
    /\ chunkOut.done
    /\ Len(chunkOut.chunks) >= 3
    /\ \E i \in 2..Len(chunkOut.chunks) :
           /\ isBoundary(split(chunkIn.content)[chunkOut.chunks[i].startLine + 1], chunkIn.extension)
           /\ chunkOut.chunks[i - 1].tokens + countTokens(split(chunkIn.content)[chunkOut.chunks[i].startLine + 1])
                  <= chunkIn.maxTokens

-----------------------------------------------------------------------------
(* The files and file_chunks tables                                         *)
(*                                                                         *)
(* Every db.run is one step: the statement runs and its callback with it.  *)
(* Nothing wraps the statements of one operation in a transaction or in    *)
(* db.serialize, so the database is in its default parallel mode: the     *)
(* statements handed to it and not yet run may run in any order, and the   *)
(* steps of operations in flight interleave.                               *)

\* the chunk budget processFile chunks with: smartChunkContent's default
\* maxTokens, 2000 in the source, scaled down to the model's short contents
DefaultMaxTokens == 1
\* processFile calls in one behaviour
MaxCalls == 2
\* processFile calls in flight at once
MaxInFlight == 2
\* clearCache calls in one behaviour
MaxClears == 1
\* failed reads and database steps in one behaviour
MaxFailures == 1

\* config.get('maxFileSize', 10485760)
DefaultMaxFileSize == 10485760
\* a maxFileSize the user configured, in bytes, scaled down to the model's
\* short contents
SmallMaxFileSize == 2
\* what config.get('maxFileSize', ...) may return
MaxFileSizes == {SmallMaxFileSize, DefaultMaxFileSize}
\* the per-file token limit, 100000 in the source, scaled down to the model's
\* short contents
MaxFileTokens == 3
\* content.substring(0, 500)
PreviewLength == 500

PathA == <<"a", ".", "p", "y">>
PathB == <<"R", ".", "m", "d">>
PathC == <<"c", ".", "b", "i", "n">>
StorePaths == {PathA, PathB, PathC}

\* a one-line content with more tokens than the per-file limit, under the
\* tokenizer and under the fallback count
LongContent == [i \in 1..(4 * MaxFileTokens + 5) |-> "x"]

\* what a file on disk may hold when processFile reads it
StoreContents == {<<"x">>, <<"x", "\n", "y">>, LongContent}

\* how the file system answers a call: "stat" is statSync throwing, "read" is
\* readFileSync throwing
FsErrors == {"none", "stat", "read"}

supportedExtensions ==
    {ExtPy, ExtJs, ExtTs, ExtJava, ExtCpp, <<".", "c">>, <<".", "g", "o">>, <<".", "r", "s">>,
     <<".", "p", "h", "p">>, <<".", "r", "b">>, <<".", "s", "w", "i", "f", "t">>, <<".", "k", "t">>,
     <<".", "h", "t", "m", "l">>, <<".", "c", "s", "s">>, <<".", "s", "q", "l">>, <<".", "s", "h">>,
     <<".", "y", "m", "l">>, <<".", "y", "a", "m", "l">>, <<".", "j", "s", "o", "n">>,
     <<".", "x", "m", "l">>, ExtMd, <<".", "t", "x", "t">>, <<".", "c", "f", "g">>,
     <<".", "i", "n", "i">>, <<".", "t", "o", "m", "l">>, <<".", "j", "s", "x">>,
     <<".", "t", "s", "x">>}

\* this.filePriority[extension] || 1
filePriority(extension) ==
    CASE extension = ExtPy -> 10
      [] extension \in {ExtJs, ExtTs} -> 9
      [] extension \in {ExtJava, <<".", "j", "s", "x">>, <<".", "t", "s", "x">>} -> 8
      [] extension \in {ExtCpp, <<".", "c">>} -> 7
      [] extension \in {<<".", "g", "o">>, <<".", "r", "s">>, <<".", "s", "q", "l">>} -> 6
      [] extension \in {<<".", "h", "t", "m", "l">>, <<".", "s", "h">>} -> 5
      [] extension \in {<<".", "c", "s", "s">>, <<".", "y", "m", "l">>, <<".", "y", "a", "m", "l">>, ExtMd} -> 4
      [] extension \in {<<".", "j", "s", "o", "n">>, <<".", "x", "m", "l">>, <<".", "t", "x", "t">>} -> 3
      [] extension \in {<<".", "c", "f", "g">>, <<".", "i", "n", "i">>} -> 2
      [] OTHER -> 1

determineFileType(extension) ==
    IF extension \in {ExtPy, ExtJs, ExtTs, ExtJava, ExtCpp, <<".", "c">>, <<".", "g", "o">>, <<".", "r", "s">>}
    THEN <<"c", "o", "d", "e">>
    ELSE IF extension \in {<<".", "j", "s", "o", "n">>, <<".", "x", "m", "l">>, <<".", "y", "m", "l">>,
                           <<".", "y", "a", "m", "l">>, <<".", "c", "f", "g">>, <<".", "i", "n", "i">>}
    THEN <<"c", "o", "n", "f", "i", "g">>
    ELSE IF extension \in {ExtMd, <<".", "t", "x", "t">>}
    THEN <<"t", "e", "x", "t">>
    ELSE <<"o", "t", "h", "e", "r">>

\* the largest i with s[i] = c, 0 when there is none
LastIndexOf(s, c) ==
    LET at == {i \in 1..Len(s) : s[i] = c}
    IN  IF at = {} THEN 0 ELSE CHOOSE i \in at : \A j \in at : j <= i

\* path.basename
basename(filePath) == SubSeq(filePath, LastIndexOf(filePath, "/") + 1, Len(filePath))

\* path.extname: from the last '.' of the base name, unless that is its first character
extname(filePath) ==
    LET base == basename(filePath)
        dot == LastIndexOf(base, ".")
    IN  IF dot <= 1 THEN <<>> ELSE SubSeq(base, dot, Len(base))

CharCode(c) ==
    CASE c = "x" -> 1 [] c = "y" -> 2 [] c = "\n" -> 3 [] c = "#" -> 4 [] c = " " -> 5 [] OTHER -> 6

RECURSIVE Digest(_)
Digest(s) == IF s = <<>> THEN 0 ELSE CharCode(s[1]) + 7 * Digest(Tail(s))

\* crypto.createHash('md5').update(content).digest('hex'): a digest that tells
\* the model's contents apart
md5(content) == Digest(content)

\* content.substring(0, 500) + (content.length > 500 ? '...' : '')
contentPreview(content) ==
    IF Len(content) > PreviewLength
    THEN SubSeq(content, 1, PreviewLength) \o <<".", ".", ".">>
    ELSE content

\* the row processFile writes for filePath holding content, under the id the
\* table gives it (created_at and last_modified, which nothing reads, are left out)
FileRow(id, filePath, content) ==
    LET extension == toLowerCase(extname(filePath))
    IN  [id              |-> id,
         file_path       |-> filePath,
         file_hash       |-> md5(content),
         extension       |-> extension,
         file_type       |-> determineFileType(extension),
         size            |-> Len(content),
         lines           |-> Len(split(content)),
         tokens          |-> countTokens(content),
         priority        |-> filePriority(extension),
         is_processed    |-> TRUE,
         content_preview |-> contentPreview(content)]

\* the file_chunks row of chunk number index (0-based) of a file (the row's own
\* id, which nothing reads, is left out)
ChunkRow(fileId, index, chunk) ==
    [file_id     |-> fileId,
     chunk_index |-> index,
     content     |-> chunk.content,
     tokens      |-> chunk.tokens,
     start_line  |-> chunk.startLine,
     end_line    |-> chunk.endLine,
     chunk_type  |-> chunk.chunkType,
     chunk_hash  |-> md5(chunk.content)]

\* an INSERT that keeps the row the path already has
InsertFileKeepingOld(table, row) == table \cup {row}

\* INSERT OR REPLACE INTO files, file_path being UNIQUE: the row that holds the
\* path is deleted and the new row, with its new id, inserted
InsertOrReplaceFile(table, row) ==
    {r \in table : r.file_path # row.file_path} \cup {row}

\* the chunks processFile stores for content of a file with this extension
ChunksOf(content, extension) == smartChunkContent(content, extension, DefaultMaxTokens)

InFlight(c) == calls[c].pc # "done"

\* what a call sees of the store when it starts, kept to compare with later
Snapshot == [files |-> files, file_chunks |-> file_chunks, cleared |-> clear.made,
             quiet |-> clear.pc = "idle" /\ \A c \in DOMAIN calls : ~InFlight(c)]

NewCall(filePath, content, pc, outcome) ==
    [path |-> filePath, content |-> content, pc |-> pc, outcome |-> outcome,
     fileId |-> 0, pending |-> {}, insertedChunks |-> 0, pre |-> Snapshot]

\* resolve / reject settle the promise once; later calls of either change nothing
Settle(call, outcome) ==
    IF call.outcome = "pending" THEN [call EXCEPT !.outcome = outcome] ELSE call

\* a size test that lets every file through
NeverTooLarge(size, maxFileSize) == FALSE

\* if (stats.size > maxFileSize)
TooLarge(size, maxFileSize) == size > maxFileSize

\* a token test that lets every file through
NeverTooManyTokens(totalTokens) == FALSE

\* if (totalTokens > 100000)
TooManyTokens(totalTokens) == totalTokens > MaxFileTokens

\* processFile up to its first database call: the checks, the read, and the
\* INSERT OR REPLACE handed to the database. fsError is what the file system
\* does to statSync and readFileSync, maxFileSize what the configuration holds.
ProcessFile(filePath, content, fsError, maxFileSize) ==
    /\ Len(calls) < MaxCalls
    /\ Cardinality({c \in DOMAIN calls : InFlight(c)}) < MaxInFlight
    /\ fsError # "none" => failures < MaxFailures
    /\ LET extension == toLowerCase(extname(filePath))
       IN  IF extension \notin supportedExtensions
           THEN /\ calls' = Append(calls, NewCall(filePath, content, "done", "false"))
                /\ UNCHANGED failures
           ELSE IF fsError = "stat"
           THEN /\ calls' = Append(calls, NewCall(filePath, content, "done", "rejected"))
                /\ failures' = failures + 1
           ELSE IF TooLarge(Len(content), maxFileSize)
           THEN /\ calls' = Append(calls, NewCall(filePath, content, "done", "false"))
                /\ UNCHANGED failures
           ELSE IF fsError = "read"
           THEN /\ calls' = Append(calls, NewCall(filePath, content, "done", "rejected"))
                /\ failures' = failures + 1
           ELSE IF TooManyTokens(countTokens(content))
           THEN /\ calls' = Append(calls, NewCall(filePath, content, "done", "false"))
                /\ UNCHANGED failures
           ELSE /\ calls' = Append(calls, NewCall(filePath, content, "replace", "pending"))
                /\ UNCHANGED failures
    /\ UNCHANGED <<encoding, streamlit, llm, chat, context, scan, files, file_chunks, lastFileId, clear, chunkIn, chunkOut, rankIn, rankOut>>

\* processFile called on its own: by the analyzeFile command or by the
\* onDidSaveTextDocument handler
ProcessFileStart(filePath, content, fsError, maxFileSize) ==
    /\ ProcessFile(filePath, content, fsError, maxFileSize)
    /\ UNCHANGED ws

\* the INSERT OR REPLACE runs and its callback issues the DELETE of the chunks
\* of this.lastID
DbFileReplace(c, ok) ==
    /\ calls[c].pc = "replace"
    /\ ~ok => failures < MaxFailures
    /\ IF ok
       THEN /\ lastFileId' = lastFileId + 1
            /\ files' = InsertOrReplaceFile(files, FileRow(lastFileId + 1, calls[c].path, calls[c].content))
            /\ calls' = [calls EXCEPT ![c].fileId = lastFileId + 1, ![c].pc = "delete"]
            /\ UNCHANGED failures
       ELSE /\ calls' = [calls EXCEPT ![c] = [Settle(@, "rejected") EXCEPT !.pc = "done"]]
            /\ failures' = failures + 1
            /\ UNCHANGED <<lastFileId, files>>
    /\ UNCHANGED <<encoding, streamlit, llm, chat, context, scan, ws, file_chunks, clear, chunkIn, chunkOut, rankIn, rankOut>>

\* DELETE FROM file_chunks WHERE file_id = fileId runs and its callback chunks
\* the content and issues one INSERT per chunk
DbChunkDelete(c, ok) ==
    /\ calls[c].pc = "delete"
    /\ ~ok => failures < MaxFailures
    /\ IF ok
       THEN LET chunks == ChunksOf(calls[c].content, toLowerCase(extname(calls[c].path)))
            IN  /\ file_chunks' = {r \in file_chunks : r.file_id # calls[c].fileId}
                /\ IF Len(chunks) = 0
                   THEN calls' = [calls EXCEPT ![c] = [Settle(@, "true") EXCEPT !.pc = "done"]]
                   ELSE calls' = [calls EXCEPT ![c].pc = "insert",
                                               ![c].pending = 0..(Len(chunks) - 1)]
                /\ UNCHANGED failures
       ELSE /\ calls' = [calls EXCEPT ![c] = [Settle(@, "rejected") EXCEPT !.pc = "done"]]
            /\ failures' = failures + 1
            /\ UNCHANGED file_chunks
    /\ UNCHANGED <<encoding, streamlit, llm, chat, context, scan, ws, files, lastFileId, clear, chunkIn, chunkOut, rankIn, rankOut>>

\* one of the queued chunk INSERTs runs, with its callback. The database is in
\* its default parallel mode: the queued INSERTs run in no fixed order.
DbChunkInsert(c, index, ok) ==
    /\ calls[c].pc = "insert"
    /\ index \in calls[c].pending
    /\ ~ok => failures < MaxFailures
    /\ LET chunks == ChunksOf(calls[c].content, toLowerCase(extname(calls[c].path)))
           left == calls[c].pending \ {index}
           pc == IF left = {} THEN "done" ELSE "insert"
       IN  IF ok
           THEN /\ file_chunks' = file_chunks \cup {ChunkRow(calls[c].fileId, index, chunks[index + 1])}
                /\ calls' = [calls EXCEPT ![c] =
                       [(IF @.insertedChunks + 1 = Len(chunks) THEN Settle(@, "true") ELSE @)
                          EXCEPT !.insertedChunks = @ + 1, !.pending = left, !.pc = pc]]
                /\ UNCHANGED failures
           ELSE /\ calls' = [calls EXCEPT ![c] = [Settle(@, "rejected") EXCEPT !.pending = left, !.pc = pc]]
                /\ failures' = failures + 1
                /\ UNCHANGED file_chunks
    /\ UNCHANGED <<encoding, streamlit, llm, chat, context, scan, ws, files, lastFileId, clear, chunkIn, chunkOut, rankIn, rankOut>>

\* a DELETE that leaves the table as it was
DeleteNoRows(table) == table

\* DELETE FROM a table, with no WHERE
DeleteAllRows(table) == {}

\* clearCache up to its first database call
ClearCacheStart ==
    /\ clear.pc = "idle"
    /\ clear.made < MaxClears
    /\ clear' = [pc |-> "chunks", made |-> clear.made + 1, outcome |-> "pending",
                 quiet |-> clear.quiet /\ \A c \in DOMAIN calls : ~InFlight(c)]
    /\ UNCHANGED <<encoding, streamlit, llm, chat, context, scan, ws, files, file_chunks, lastFileId, calls, failures, chunkIn, chunkOut, rankIn, rankOut>>

\* DELETE FROM file_chunks runs and its callback issues DELETE FROM files
DbClearChunks(ok) ==
    /\ clear.pc = "chunks"
    /\ ~ok => failures < MaxFailures
    /\ IF ok
       THEN /\ file_chunks' = DeleteAllRows(file_chunks)
            /\ clear' = [clear EXCEPT !.pc = "files"]
            /\ UNCHANGED failures
       ELSE /\ clear' = [clear EXCEPT !.pc = "idle", !.outcome = "rejected"]
            /\ failures' = failures + 1
            /\ UNCHANGED file_chunks
    /\ UNCHANGED <<encoding, streamlit, llm, chat, context, scan, ws, files, lastFileId, calls, chunkIn, chunkOut, rankIn, rankOut>>

\* DELETE FROM files runs and its callback resolves
DbClearFiles(ok) ==
    /\ clear.pc = "files"
    /\ ~ok => failures < MaxFailures
    /\ IF ok
       THEN /\ files' = DeleteAllRows(files)
            /\ clear' = [clear EXCEPT !.pc = "idle", !.outcome = "resolved"]
            /\ UNCHANGED failures
       ELSE /\ clear' = [clear EXCEPT !.pc = "idle", !.outcome = "rejected"]
            /\ failures' = failures + 1
            /\ UNCHANGED files
    /\ UNCHANGED <<encoding, streamlit, llm, chat, context, scan, ws, file_chunks, lastFileId, calls, chunkIn, chunkOut, rankIn, rankOut>>

Init ==
    /\ encoding \in BOOLEAN
    /\ StoreIdle
    /\ ChunkIdle
    /\ RankIdle

Next ==
    \/ \E filePath \in StorePaths, content \in StoreContents, fsError \in FsErrors,
          maxFileSize \in MaxFileSizes :
           ProcessFileStart(filePath, content, fsError, maxFileSize)
    \/ \E c \in DOMAIN calls, ok \in BOOLEAN : DbFileReplace(c, ok)
    \/ \E c \in DOMAIN calls, ok \in BOOLEAN : DbChunkDelete(c, ok)
    \/ \E c \in DOMAIN calls, ok \in BOOLEAN : \E index \in calls[c].pending : DbChunkInsert(c, index, ok)
    \/ ClearCacheStart
    \/ \E ok \in BOOLEAN : DbClearChunks(ok)
    \/ \E ok \in BOOLEAN : DbClearFiles(ok)

Spec == Init /\ [][Next]_vars

-----------------------------------------------------------------------------
(* What a reader sees, and the statements about the store                   *)

\* the rows of a files table that hold a path
RowsOf(table, filePath) == {r \in table : r.file_path = filePath}

\* the chunk rows a read reaches from the processed file row of a path
\* (file_chunks.file_id REFERENCES files.id)
VisibleChunks(table, chunkTable, filePath) ==
    {r \in chunkTable : \E f \in RowsOf(table, filePath) : f.is_processed /\ r.file_id = f.id}

\* chunk rows without the file id they hang on
ChunkData(rows) ==
    {[chunk_index |-> r.chunk_index, content |-> r.content, tokens |-> r.tokens,
      start_line |-> r.start_line, end_line |-> r.end_line,
      chunk_type |-> r.chunk_type, chunk_hash |-> r.chunk_hash] : r \in rows}

\* the complete chunk set of a content stored under a file id
NewChunkRows(fileId, filePath, content) ==
    LET chunks == ChunksOf(content, toLowerCase(extname(filePath)))
    IN  {ChunkRow(fileId, i - 1, chunks[i]) : i \in 1..Len(chunks)}

\* call c started with no other store operation in flight, and none has started since
RanAlone(c) ==
    /\ calls[c].pre.quiet
    /\ c = Len(calls)
    /\ clear.made = calls[c].pre.cleared

\* the row the store held for the path of call c when it started, written by
\* an earlier call that resolved true
StoredVersion(c) ==
    {r \in RowsOf(calls[c].pre.files, calls[c].path) :
        /\ calls[c].pre.quiet
        /\ \E c0 \in 1..(c - 1) : calls[c0].outcome = "true" /\ calls[c0].fileId = r.id}

\* call c read the content whose hash the stored version has / another content
StoredSame(c) == \E r \in StoredVersion(c) : r.file_hash = md5(calls[c].content)
StoredOther(c) == \E r \in StoredVersion(c) : r.file_hash # md5(calls[c].content)

\* every operation so far ran to its end, one at a time, and none failed
AllSequentialAndDone ==
    /\ \A c \in DOMAIN calls : ~InFlight(c) /\ calls[c].pre.quiet
    /\ clear.pc = "idle" /\ clear.quiet
    /\ failures = 0

\* C1: processFile on a path whose stored hash equals the hash of the content
\* read is a no-op: the path's file row and the rows of file_chunks are after
\* the call what they were before it.
C1_UnchangedFileIsNoOp ==
    \A c \in DOMAIN calls :
        (calls[c].pc = "done" /\ calls[c].outcome = "true" /\ RanAlone(c) /\ StoredSame(c))
        => /\ RowsOf(files, calls[c].path) = RowsOf(calls[c].pre.files, calls[c].path)
           /\ file_chunks = calls[c].pre.file_chunks
           /\ Cardinality(file_chunks) = Cardinality(calls[c].pre.file_chunks)

\* C2: between any two database steps of a processFile that replaces a changed
\* file, the chunk set read through the path's processed file row is the
\* complete old chunk set or the complete new one.
C2_ReplaceIsAtomicForReaders ==
    \A c \in DOMAIN calls :
        (calls[c].pc \in {"replace", "delete", "insert"} /\ RanAlone(c) /\ StoredOther(c))
        => ChunkData(VisibleChunks(files, file_chunks, calls[c].path))
             \in {ChunkData(VisibleChunks(calls[c].pre.files, calls[c].pre.file_chunks, calls[c].path)),
                  ChunkData(NewChunkRows(0, calls[c].path, calls[c].content))}

\* C3: after any sequence of completed processFile and clearCache calls, every
\* row of file_chunks has the file_id of an existing row of files.
C3_NoOrphanedChunks ==
    AllSequentialAndDone => \A r \in file_chunks : \E f \in files : f.id = r.file_id

\* the store holds for the call's path its complete previous record or its
\* complete new one
RecordWhole(table, chunkTable, call) ==
    LET now == RowsOf(table, call.path)
        seen == VisibleChunks(table, chunkTable, call.path)
    IN  \/ /\ now = RowsOf(call.pre.files, call.path)
           /\ seen = VisibleChunks(call.pre.files, call.pre.file_chunks, call.path)
        \/ /\ now # {}
           /\ \A f \in now : f.file_hash = md5(call.content)
           /\ ChunkData(seen) = ChunkData(NewChunkRows(0, call.path, call.content))

\* the records of the other paths are what they were when the call started
OthersKept(table, chunkTable, call) ==
    \A p \in StorePaths \ {call.path} :
        /\ RowsOf(table, p) = RowsOf(call.pre.files, p)
        /\ VisibleChunks(table, chunkTable, p) = VisibleChunks(call.pre.files, call.pre.file_chunks, p)

\* C4: when the chunk delete or a chunk insert of processFile fails, the call
\* rejects and the store holds for the path the complete previous record or
\* the complete new one, the records of the other paths unchanged.
C4_FailedWriteLeavesRecordWhole ==
    [][\A c \in DOMAIN calls :
          (/\ calls[c].pc \in {"delete", "insert"}
           /\ calls[c].outcome = "pending" /\ calls'[c].outcome = "rejected"
           /\ RanAlone(c))
          => /\ RecordWhole(files', file_chunks', calls[c])
             /\ OthersKept(files', file_chunks', calls[c])]_vars

\* call c has run its first database step and has database steps left
Midway(c) == calls[c].pc \in {"delete", "insert"}

\* C5: two processFile calls on the same path are serialized: the database
\* steps of one are all done before the first database step of the other.
C5_SamePathCallsSerialized ==
    \A c1, c2 \in DOMAIN calls :
        (c1 # c2 /\ calls[c1].path = calls[c2].path) => ~(Midway(c1) /\ Midway(c2))

\* C6: the files table holds at most one row per file path.
C6_OneRowPerPath ==
    \A r1, r2 \in files : r1.file_path = r2.file_path => r1 = r2

\* a path processed a second time with another content: its row was superseded
C6_Witness ==
    \E c1, c2 \in DOMAIN calls :
        /\ c1 < c2 /\ calls[c1].path = calls[c2].path
        /\ calls[c1].content # calls[c2].content
        /\ calls[c1].fileId # 0
        /\ \E f \in files : f.id = calls[c2].fileId

\* C7: when processFile resolves true for a path whose content differs from
\* the stored version, the path's file row carries the new content's hash and
\* the chunk rows of that row's id are exactly the chunks of the new content.
C7_ResolvedTrueMeansStored ==
    [][\A c \in DOMAIN calls :
          (calls[c].outcome = "pending" /\ calls'[c].outcome = "true" /\ StoredOther(c))
          => /\ RowsOf(files', calls[c].path) # {}
             /\ \A f \in RowsOf(files', calls[c].path) :
                   /\ f.file_hash = md5(calls[c].content)
                   /\ {r \in file_chunks' : r.file_id = f.id}
                        = NewChunkRows(f.id, calls[c].path, calls[c].content)]_vars

-----------------------------------------------------------------------------
(* getRelevantFiles                                                          *)

\* largest budget handed to getRelevantFiles
MaxBudget == 4
\* the most entries getRelevantFiles returns: selectedFiles.slice(0, 20), 20
\* in the source, scaled down to the model's small stores
MaxResults == 2

RECURSIVE SplitSpaceLoop(_, _, _, _, _)
SplitSpaceLoop(s, i, cur, acc, inRun) ==
    IF i > Len(s) THEN Append(acc, cur)
    ELSE IF IsSpace(s[i])
    THEN IF inRun THEN SplitSpaceLoop(s, i + 1, cur, acc, TRUE)
         ELSE SplitSpaceLoop(s, i + 1, <<>>, Append(acc, cur), TRUE)
    ELSE SplitSpaceLoop(s, i + 1, Append(cur, s[i]), acc, FALSE)

\* new Set(query.toLowerCase().split(/\s+/))
queryKeywords(query) ==
    LET parts == SplitSpaceLoop(toLowerCase(query), 1, <<>>, <<>>, FALSE)
    IN  {parts[i] : i \in 1..Len(parts)}

\* what one keyword adds to a row's relevanceScore
KeywordScore(row, keyword) ==
    (IF includes(toLowerCase(basename(row.file_path)), keyword) THEN 10 ELSE 0)
  + (IF includes(row.extension, keyword) THEN 5 ELSE 0)
  + (IF includes(row.file_type, keyword) THEN 3 ELSE 0)
  + (IF includes(toLowerCase(row.content_preview), keyword) THEN 7 ELSE 0)

RECURSIVE relevanceScore(_, _)
\* the relevanceScore the loop computes for a row: queryKeywords.forEach(...)
relevanceScore(row, keywords) ==
    IF keywords = {} THEN 0
    ELSE LET keyword == CHOOSE k \in keywords : TRUE
         IN  KeywordScore(row, keyword) + relevanceScore(row, keywords \ {keyword})

\* a query that answers with one row of its own whatever the table holds
PlaceholderRows(table) == {<<FileRow(0, PathA, <<>>)>>}

\* the possible results of SELECT ... FROM files WHERE is_processed = 1
\* ORDER BY priority DESC, tokens ASC: rows that tie come in any order
OrderedRows(table) ==
    LET rows == {r \in table : r.is_processed}
        n == Cardinality(rows)
    IN  {s \in [1..n -> rows] :
            /\ \A i, j \in 1..n : i # j => s[i] # s[j]
            /\ \A i, j \in 1..n : i < j =>
                  \/ s[i].priority > s[j].priority
                  \/ s[i].priority = s[j].priority /\ s[i].tokens <= s[j].tokens}

\* the FileInfo pushed for a row
FileInfo(row) ==
    [filePath |-> row.file_path, extension |-> row.extension, fileType |-> row.file_type,
     size |-> 0, lines |-> 0, tokens |-> row.tokens, priority |-> row.priority,
     hash |-> row.file_hash, contentPreview |-> row.content_preview]

\* a budget test that looks at the total before the row is added
OverflowsBeforeAdding(currentTokens, rowTokens, maxTokens) == currentTokens > maxTokens

\* if (currentTokens + row.tokens > maxTokens) break
Overflows(currentTokens, rowTokens, maxTokens) == currentTokens + rowTokens > maxTokens

RECURSIVE SelectFitting(_, _, _, _, _)
\* a loop that passes over a row that does not fit and goes on to the next
SelectFitting(rows, i, currentTokens, selectedFiles, maxTokens) ==
    IF i > Len(rows) THEN selectedFiles
    ELSE IF Overflows(currentTokens, rows[i].tokens, maxTokens)
    THEN SelectFitting(rows, i + 1, currentTokens, selectedFiles, maxTokens)
    ELSE SelectFitting(rows, i + 1, currentTokens + rows[i].tokens,
                       Append(selectedFiles, FileInfo(rows[i])), maxTokens)

RECURSIVE SelectLoop(_, _, _, _, _)
\* the for loop over rows
SelectLoop(rows, i, currentTokens, selectedFiles, maxTokens) ==
    IF i > Len(rows) \/ Overflows(currentTokens, rows[i].tokens, maxTokens)
    THEN selectedFiles
    ELSE SelectLoop(rows, i + 1, currentTokens + rows[i].tokens,
                    Append(selectedFiles, FileInfo(rows[i])), maxTokens)

RECURSIVE InsertBeforeEquals(_, _)
\* x put into a sequence sorted by priority descending, before its equals
InsertBeforeEquals(sorted, x) ==
    IF sorted = <<>> THEN <<x>>
    ELSE IF sorted[1].priority > x.priority
    THEN <<sorted[1]>> \o InsertBeforeEquals(Tail(sorted), x)
    ELSE <<x>> \o sorted

RECURSIVE InsertByPriority(_, _)
\* x put into a sequence sorted by priority descending, after its equals
InsertByPriority(sorted, x) ==
    IF sorted = <<>> THEN <<x>>
    ELSE IF sorted[1].priority >= x.priority
    THEN <<sorted[1]>> \o InsertByPriority(Tail(sorted), x)
    ELSE <<x>> \o sorted

RECURSIVE SortByPriority(_)
\* selectedFiles.sort((a, b) => b.priority - a.priority), a stable sort
SortByPriority(xs) ==
    IF xs = <<>> THEN <<>>
    ELSE InsertByPriority(SortByPriority(SubSeq(xs, 1, Len(xs) - 1)), xs[Len(xs)])

\* a slice that keeps the whole list
sliceKeepsAll(xs, end) == xs

\* xs.slice(0, end)
slice(xs, end) == SubSeq(xs, 1, IF Len(xs) < end THEN Len(xs) ELSE end)

\* the list getRelevantFiles resolves with, rows being what the SELECT returned
getRelevantFiles(rows, query, maxTokens) ==
    slice(SortByPriority(SelectLoop(rows, 1, 0, <<>>, maxTokens)), MaxResults)

PathD == <<"b", ".", "p", "y">>
RankPaths == {PathA, PathB, PathD}
RankContents == {<<>>, <<"x">>, <<"x", "y", "x", "y", "x">>}
RankQueries == {<<>>, <<"A", " ", "x">>, <<"p", "y">>}

\* the id a path's row has in the stores getRelevantFiles is studied on
RankId(filePath) == CASE filePath = PathA -> 1 [] filePath = PathB -> 2 [] OTHER -> 3

\* a store in which the paths of held were processed, each with the content
\* given for it, and getRelevantFiles is about to be called
InitRank ==
    /\ encoding \in BOOLEAN
    /\ \E held \in SUBSET RankPaths :
         \E contentOf \in [held -> RankContents] :
            /\ files = {FileRow(RankId(p), p, contentOf[p]) : p \in held}
            /\ file_chunks = UNION {NewChunkRows(RankId(p), p, contentOf[p]) : p \in held}
            /\ lastFileId = Cardinality(RankPaths)
    /\ calls = <<>>
    /\ clear = [pc |-> "idle", made |-> 0, outcome |-> "none", quiet |-> TRUE]
    /\ failures = 0
    /\ WorkspaceIdle
    /\ ContextIdle
    /\ ScanIdle
    /\ StreamlitIdle
    /\ LlmIdle
    /\ ChatIdle
    /\ rankIn \in [query : RankQueries, maxTokens : 0..MaxBudget]
    /\ rankOut = [done |-> FALSE, files |-> <<>>]
    /\ ChunkIdle

\* one call of getRelevantFiles: the SELECT, then the callback
GetRelevantFiles ==
    /\ ~rankOut.done
    /\ \E rows \in OrderedRows(files) :
          rankOut' = [done |-> TRUE, files |-> getRelevantFiles(rows, rankIn.query, rankIn.maxTokens)]
    /\ UNCHANGED <<encoding, streamlit, llm, chat, storeVars, chunkIn, chunkOut, rankIn>>

NextRank == GetRelevantFiles

SpecRank == InitRank /\ [][NextRank]_vars

RECURSIVE SumTokens(_)
SumTokens(infos) == IF infos = <<>> THEN 0 ELSE infos[1].tokens + SumTokens(Tail(infos))

\* C10: the tokens of the files getRelevantFiles returns sum to at most the
\* budget maxTokens it was called with.
C10_WithinBudget ==
    rankOut.done => SumTokens(rankOut.files) <= rankIn.maxTokens

\* a call that took two files with tokens and stopped at one that did not fit
C10_Witness ==
    /\ rankOut.done
    /\ Len(rankOut.files) >= 2
    /\ \A i \in 1..Len(rankOut.files) : rankOut.files[i].tokens > 0
    /\ Cardinality({r \in files : r.is_processed}) > Len(rankOut.files)

\* the relevanceScore of a returned file for the query of the call, computed
\* from the fields the FileInfo carries
InfoScore(info) ==
    relevanceScore([file_path |-> info.filePath, extension |-> info.extension,
                    file_type |-> info.fileType, content_preview |-> info.contentPreview],
                   queryKeywords(rankIn.query))

\* C11: getRelevantFiles returns the included files ordered by relevance score
\* descending: of two returned files, the one with the strictly higher score
\* (+10 filename, +5 extension, +3 category, +7 preview per keyword) comes
\* earlier in the result.
C11_OrderedByRelevance ==
    rankOut.done =>
        \A i, j \in 1..Len(rankOut.files) :
            InfoScore(rankOut.files[i]) > InfoScore(rankOut.files[j]) => i < j

-----------------------------------------------------------------------------
(* Statements about processFile's checks                                    *)

\* C12: a file whose size exceeds the configured maxFileSize, or whose token
\* count exceeds the per-file token limit, is rejected before any database
\* write: the call resolves false, hands no statement to the database, and
\* files and file_chunks, with any record they hold of the path, are unchanged.
C12_TooLargeIsRejectedUntouched ==
    [][\A filePath \in StorePaths, content \in StoreContents, maxFileSize \in MaxFileSizes :
          (/\ ProcessFileStart(filePath, content, "none", maxFileSize)
           /\ toLowerCase(extname(filePath)) \in supportedExtensions
           /\ \/ Len(content) > maxFileSize
              \/ countTokens(content) > MaxFileTokens)
          => /\ calls'[Len(calls')].outcome = "false"
             /\ calls'[Len(calls')].pc = "done"
             /\ files' = files
             /\ file_chunks' = file_chunks]_vars

\* a file with too many tokens was turned away while the store held the record
\* and the chunks of an earlier version of it
C12_Witness ==
    \E c \in DOMAIN calls :
        /\ calls[c].content = LongContent
        /\ calls[c].outcome = "false"
        /\ toLowerCase(extname(calls[c].path)) \in supportedExtensions
        /\ \E r \in RowsOf(files, calls[c].path) :
              /\ r \in calls[c].pre.files
              /\ \E k \in file_chunks : k.file_id = r.id

-----------------------------------------------------------------------------
(* getCodebaseStats                                                         *)

RECURSIVE SumColumn(_, _)
\* the sum of a column over a set of rows; Col is "lines" or "tokens"
SumColumn(rows, Col) ==
    IF rows = {} THEN 0
    ELSE LET r == CHOOSE x \in rows : TRUE
         IN  r[Col] + SumColumn(rows \ {r}, Col)

\* SQL's SUM(column): NULL, written {}, over no rows, else {the sum}
SqlSum(rows, Col) == IF rows = {} THEN {} ELSE {SumColumn(rows, Col)}

\* value || 0 on what a query returned
OrZero(value) == IF value = {} \/ value = {0} THEN 0 ELSE CHOOSE n \in value : TRUE

\* SELECT COUNT(*) as count, SUM(lines) as lines, SUM(tokens) as tokens
\* FROM files WHERE is_processed = 1
StatsRow(table) ==
    LET rows == {r \in table : r.is_processed}
    IN  [count |-> {Cardinality(rows)}, lines |-> SqlSum(rows, "lines"),
         tokens |-> SqlSum(rows, "tokens")]

\* SELECT Col, COUNT(*) as count FROM files WHERE is_processed = 1 GROUP BY Col,
\* folded into a record keyed by the column's values
CountBy(table, Col) ==
    LET rows == {r \in table : r.is_processed}
    IN  [v \in {r[Col] : r \in rows} |-> Cardinality({r \in rows : r[Col] = v})]

\* what getCodebaseStats resolves with, its three queries having returned
\* row, typeRows and extRows
getCodebaseStats(row, typeRows, extRows) ==
    [totalFiles     |-> OrZero(row.count),
     processedFiles |-> OrZero(row.count),
     totalTokens    |-> OrZero(row.tokens),
     totalLines     |-> OrZero(row.lines),
     fileTypes      |-> typeRows,
     extensions     |-> extRows]

\* clearCache has resolved, no processFile was in flight when it was called,
\* and none has been called since
ClearedAtRest ==
    /\ clear.pc = "idle"
    /\ clear.outcome = "resolved"
    /\ clear.quiet
    /\ \A c \in DOMAIN calls : calls[c].pre.cleared < clear.made

\* C13: when no processFile is in flight, after clearCache resolves
\* getCodebaseStats returns zero for totalFiles, processedFiles, totalTokens
\* and totalLines with empty fileTypes and extensions, and getRelevantFiles
\* returns the empty list, whatever was processed before the clear.
C13_ClearedStoreReadsEmpty ==
    ClearedAtRest =>
        /\ getCodebaseStats(StatsRow(files), CountBy(files, "file_type"), CountBy(files, "extension"))
             = [totalFiles |-> 0, processedFiles |-> 0, totalTokens |-> 0, totalLines |-> 0,
                fileTypes |-> <<>>, extensions |-> <<>>]
        /\ \A query \in RankQueries, maxTokens \in 0..MaxBudget :
              \A rows \in OrderedRows(files) : getRelevantFiles(rows, query, maxTokens) = <<>>

\* a clear at rest after two files had been stored whole
C13_Witness ==
    /\ ClearedAtRest
    /\ Len(calls) = 2
    /\ \A c \in DOMAIN calls : calls[c].outcome = "true" /\ calls[c].fileId # 0
    /\ calls[1].path # calls[2].path

-----------------------------------------------------------------------------
(* processWorkspace                                                         *)
(*                                                                         *)
(* The pass runs from one await to the next in one step: the return of an  *)
(* awaited processFile, the progress callback for the next file and the    *)
(* synchronous part of the next processFile are one step; so is the end of *)
(* the loop with the first query of getCodebaseStats handed to the         *)
(* database. Statements a rejected processFile left queued still run.      *)

\* the files getAllFiles may find: supported extensions only
WorkspacePaths == {p \in StorePaths : toLowerCase(extname(p)) \in supportedExtensions}

\* what getAllFiles may return: each file once, as many as the calls allowed
FileLists ==
    UNION {{s \in [1..n -> WorkspacePaths] : \A i, j \in 1..n : i # j => s[i] # s[j]} :
           n \in 0..MaxCalls}

\* a pass that counts every file whose processFile returned, whatever it
\* returned
AwaitResultCountsAll(w, outcome) ==
    [w EXCEPT !.processedFiles = @ + 1, !.i = @ + 1]

\* the rest of the loop body once the awaited processFile settled: the count
\* for a true, nothing for a false, the catch for a rejection; then i++
AwaitResult(w, outcome) ==
    IF outcome = "true"
    THEN [w EXCEPT !.processedFiles = @ + 1, !.i = @ + 1]
    ELSE [w EXCEPT !.i = @ + 1]

\* a progress test that never breaks out of the loop
NeverBreaks(proceed) == FALSE

\* if (progressCallback && !progressCallback(i + 1, files.length)) break
Breaks(proceed) == ~proceed

\* the head of the for loop for the pass state w: leave the loop at the end of
\* the list or when the callback returns false, else call processFile on
\* files[i]. proceed is what the progress callback returns.
LoopHead(w, proceed, content, fsError, maxFileSize) ==
    IF w.i >= Len(w.files)
    THEN /\ ws' = [w EXCEPT !.pc = "count"]
         /\ UNCHANGED <<encoding, streamlit, llm, chat, context, scan, files, file_chunks, lastFileId, calls, clear, failures,
                        chunkIn, chunkOut, rankIn, rankOut>>
    ELSE IF Breaks(proceed)
    THEN /\ ws' = [w EXCEPT !.pc = "count", !.cancelled = ~proceed]
         /\ UNCHANGED <<encoding, streamlit, llm, chat, context, scan, files, file_chunks, lastFileId, calls, clear, failures,
                        chunkIn, chunkOut, rankIn, rankOut>>
    ELSE /\ ProcessFile(w.files[w.i + 1], content, fsError, maxFileSize)
         /\ ws' = [w EXCEPT !.pc = "await", !.cancelled = ~proceed]

\* processWorkspace is called: getAllFiles returns fileList and the loop starts
ProcessWorkspaceStart(fileList, proceed, content, fsError, maxFileSize) ==
    /\ ws.pc = "idle"
    /\ LoopHead([ws EXCEPT !.files = fileList, !.outcome = "pending"],
                proceed, content, fsError, maxFileSize)

\* the processFile the pass awaits has settled: the pass takes its outcome and
\* goes round the loop
WorkspaceResume(proceed, content, fsError, maxFileSize) ==
    /\ ws.pc = "await"
    /\ calls[Len(calls)].outcome # "pending"
    /\ LoopHead(AwaitResult(ws, calls[Len(calls)].outcome),
                proceed, content, fsError, maxFileSize)

\* the return value of processWorkspace: the pass's own totalFiles and
\* processedFiles, the rest from getCodebaseStats
WorkspaceStats(w, actualStats) ==
    [totalFiles     |-> Len(w.files),
     processedFiles |-> w.processedFiles,
     totalTokens    |-> actualStats.totalTokens,
     totalLines     |-> actualStats.totalLines,
     fileTypes      |-> actualStats.fileTypes,
     extensions     |-> actualStats.extensions]

\* one query of the getCodebaseStats the pass awaits runs, with its callback:
\* the next query is handed over, or after the third the pass resolves
WorkspaceStatsQuery(ok) ==
    /\ ws.pc \in {"count", "types", "extensions"}
    /\ ~ok => failures < MaxFailures
    /\ IF ~ok
       THEN /\ ws' = [ws EXCEPT !.pc = "done", !.outcome = "rejected"]
            /\ failures' = failures + 1
       ELSE /\ UNCHANGED failures
            /\ ws' = CASE ws.pc = "count" ->
                            [ws EXCEPT !.pc = "types", !.seen = <<StatsRow(files)>>]
                       [] ws.pc = "types" ->
                            [ws EXCEPT !.pc = "extensions",
                                       !.seen = Append(@, CountBy(files, "file_type"))]
                       [] OTHER ->
                            [ws EXCEPT !.pc = "done", !.outcome = "resolved",
                                       !.seen = Append(@, CountBy(files, "extension")),
                                       !.result = <<WorkspaceStats(ws,
                                            getCodebaseStats(ws.seen[1], ws.seen[2],
                                                             CountBy(files, "extension")))>>]
    /\ UNCHANGED <<encoding, streamlit, llm, chat, context, scan, files, file_chunks, lastFileId, calls, clear,
                   chunkIn, chunkOut, rankIn, rankOut>>

NextWorkspace ==
    \/ \E fileList \in FileLists, proceed \in BOOLEAN, content \in StoreContents,
          fsError \in FsErrors, maxFileSize \in MaxFileSizes :
           ProcessWorkspaceStart(fileList, proceed, content, fsError, maxFileSize)
    \/ \E proceed \in BOOLEAN, content \in StoreContents,
          fsError \in FsErrors, maxFileSize \in MaxFileSizes :
           WorkspaceResume(proceed, content, fsError, maxFileSize)
    \/ \E c \in DOMAIN calls, ok \in BOOLEAN : DbFileReplace(c, ok)
    \/ \E c \in DOMAIN calls, ok \in BOOLEAN : DbChunkDelete(c, ok)
    \/ \E c \in DOMAIN calls, ok \in BOOLEAN : \E index \in calls[c].pending : DbChunkInsert(c, index, ok)
    \/ \E ok \in BOOLEAN : WorkspaceStatsQuery(ok)

SpecWorkspace == Init /\ [][NextWorkspace]_vars

\* the store holds the complete new record of a call's path: the file row with
\* the content's hash and exactly the content's chunks
StoredWhole(table, chunkTable, call) ==
    /\ RowsOf(table, call.path) # {}
    /\ \A f \in RowsOf(table, call.path) :
          /\ f.file_hash = md5(call.content)
          /\ {r \in chunkTable : r.file_id = f.id} = NewChunkRows(f.id, call.path, call.content)

\* C14: once the progress callback returns false, processFile is called on no
\* further file; every processFile the pass had called has settled by then,
\* each one that did not fail with nothing left to run and, if it resolved
\* true, with its record stored whole; and the pass still resolves with a
\* stats result unless a query of getCodebaseStats fails.
C14_CancelStopsBetweenFiles ==
    [][/\ ws'.cancelled => Len(calls') = Len(calls)
       /\ (ws'.cancelled /\ ~ws.cancelled) =>
             \A c \in DOMAIN calls' :
                /\ calls'[c].outcome # "pending"
                /\ calls'[c].outcome # "rejected" => calls'[c].pc = "done"
                /\ calls'[c].outcome = "true" => StoredWhole(files', file_chunks', calls'[c])
       /\ (ws.cancelled /\ ws.pc # "done" /\ ws'.pc = "done") =>
             \/ ws'.outcome = "resolved" /\ Len(ws'.result) = 1
             \/ failures' = failures + 1]_vars

\* the pass was cancelled at its second file, the first stored in two chunks,
\* and resolved
C14_Witness ==
    /\ ws.cancelled
    /\ ws.outcome = "resolved"
    /\ Len(ws.files) = 2
    /\ Len(calls) = 1
    /\ calls[1].outcome = "true"
    /\ calls[1].insertedChunks = 2
    /\ ws.result[1].processedFiles = 1

\* the pass, where it has got to: not cancelled, it leaves the loop only
\* after processFile was called on every file of the list in turn; resolved,
\* it reports the number of calls that resolved true
PassRanThrough ==
    /\ (ws.pc \in {"count", "types", "extensions", "done"} /\ ~ws.cancelled) =>
          /\ Len(calls) = Len(ws.files)
          /\ \A k \in DOMAIN calls : calls[k].path = ws.files[k]
    /\ ws.outcome = "resolved" =>
          /\ ws.result[1].processedFiles
               = Cardinality({c \in DOMAIN calls : calls[c].outcome = "true"})
          /\ ws.result[1].totalFiles = Len(ws.files)

\* C15: a processFile that fails on one file (a read error or a rejected
\* database step) does not abort the pass: processFile is still called on
\* every later file, the pass rejects only when a query of getCodebaseStats
\* fails, and the processedFiles it returns is the number of files for which
\* processFile resolved true.
C15_FailureDoesNotAbortPass ==
    [][/\ PassRanThrough'
       /\ (ws'.outcome = "rejected" /\ ws.outcome # "rejected") =>
             ws.pc \in {"count", "types", "extensions"}]_vars

\* the first file's processFile rejected, the second resolved true, and the
\* pass resolved
C15_Witness ==
    /\ ws.outcome = "resolved"
    /\ ~ws.cancelled
    /\ Len(calls) = 2
    /\ calls[1].outcome = "rejected"
    /\ calls[2].outcome = "true"

-----------------------------------------------------------------------------
(* Statements about smartChunkContent's edge cases                          *)

\* C16: smartChunkContent applied to empty content returns zero chunks (so an
\* empty file stores no chunk rows).
C16_EmptyContentNoChunks ==
    (chunkOut.done /\ chunkIn.content = <<>>) => chunkOut.chunks = <<>>

\* C17: chunking the Python content "def f():\n    return 1\n" with extension
\* .py and a max_tokens large enough for one chunk yields exactly one chunk,
\* of kind declaration, with start_line 0 and end_line 1.
C17_DefExampleOneChunk ==
    (chunkOut.done /\ chunkIn.content = DefContent /\ chunkIn.extension = ExtPy)
    => /\ Len(chunkOut.chunks) = 1
       /\ chunkOut.chunks[1].chunkType = "declaration"
       /\ chunkOut.chunks[1].startLine = 0
       /\ chunkOut.chunks[1].endLine = 1

\* the chunks whose line range holds line k (0-based)
ChunksHolding(chunks, k) ==
    {i \in 1..Len(chunks) : chunks[i].startLine <= k /\ k <= chunks[i].endLine}

\* C18: a line whose own token count exceeds max_tokens is in exactly one
\* chunk, and that chunk is the line and nothing else: the line is not split,
\* not dropped and not merged with the lines around it.
C18_LongLineAlone ==
    chunkOut.done =>
        LET lines == split(chunkIn.content)
        IN  \A k \in 0..(Len(lines) - 1) :
               countTokens(lines[k + 1]) > chunkIn.maxTokens =>
                  /\ Cardinality(ChunksHolding(chunkOut.chunks, k)) = 1
                  /\ \A i \in ChunksHolding(chunkOut.chunks, k) :
                        /\ chunkOut.chunks[i].startLine = k
                        /\ chunkOut.chunks[i].endLine = k
                        /\ chunkOut.chunks[i].content = lines[k + 1]

\* a line over max_tokens with a line before it and a line after it
C18_Witness ==
    /\ chunkOut.done
    /\ LET lines == split(chunkIn.content)
       IN  \E k \in 1..(Len(lines) - 2) :
              /\ countTokens(lines[k + 1]) > chunkIn.maxTokens
              /\ lines[k] # <<>>
              /\ Len(chunkOut.chunks) >= 3

\* C19: for an extension with no entry in the boundary-pattern table, a chunk
\* is closed only when adding the next line would exceed max_tokens: every
\* chunk after the first starts at a line that did not fit into the chunk
\* before it.
C19_NoBoundaryForUnknownExtension ==
    (chunkOut.done /\ chunkIn.extension \notin {ExtPy, ExtJs, ExtTs, ExtJava, ExtCpp})
    => LET lines == split(chunkIn.content)
       IN  \A i \in 2..Len(chunkOut.chunks) :
              chunkOut.chunks[i - 1].tokens + countTokens(lines[chunkOut.chunks[i].startLine + 1])
                 > chunkIn.maxTokens

-----------------------------------------------------------------------------
(* Statements about what processFile resolves with                          *)

\* processFile skips the file: its extension is not supported, or its size,
\* once statSync gave it, exceeds maxFileSize, or its token count, once the
\* content was read, exceeds the per-file limit
Skipped(filePath, content, fsError, maxFileSize) ==
    \/ toLowerCase(extname(filePath)) \notin supportedExtensions
    \/ fsError # "stat" /\ Len(content) > maxFileSize
    \/ fsError = "none" /\ countTokens(content) > MaxFileTokens

\* C20: processFile resolves true only after the file row and every chunk row
\* of the content have been written (its INSERT OR REPLACE and each of its
\* chunk INSERTs has run without error, and with no other operation around
\* the rows are in the store), and it resolves false exactly when the file is
\* skipped for an unsupported extension, for exceeding the size limit or for
\* exceeding the token limit.
C20_TrueAfterAllRowsFalseWhenSkipped ==
    [][/\ \A c \in DOMAIN calls :
             (calls[c].outcome = "pending" /\ calls'[c].outcome = "true") =>
                /\ calls'[c].fileId # 0
                /\ calls'[c].pending = {}
                /\ calls'[c].insertedChunks
                     = Len(ChunksOf(calls[c].content, toLowerCase(extname(calls[c].path))))
                /\ RanAlone(c) => StoredWhole(files', file_chunks', calls[c])
       /\ \A c \in DOMAIN calls : calls'[c].outcome = "false" => calls[c].outcome = "false"
       /\ \A filePath \in StorePaths, content \in StoreContents, fsError \in FsErrors,
             maxFileSize \in MaxFileSizes :
             ProcessFileStart(filePath, content, fsError, maxFileSize) =>
                (calls'[Len(calls')].outcome = "false"
                   <=> Skipped(filePath, content, fsError, maxFileSize))]_vars

\* one call resolved true after its two chunk rows were written, and one was
\* skipped for its size
C20_Witness ==
    \E c1, c2 \in DOMAIN calls :
        /\ calls[c1].outcome = "true"
        /\ calls[c1].insertedChunks = 2
        /\ calls[c2].outcome = "false"
        /\ toLowerCase(extname(calls[c2].path)) \in supportedExtensions
        /\ calls[c2].content = <<"x", "\n", "y">>

-----------------------------------------------------------------------------
(* Further statements about getRelevantFiles                                *)

\* C21: getRelevantFiles returns at most 20 entries (MaxResults, the bound of
\* the slice), whatever the store, the query and the budget.
C21_AtMostMaxResults ==
    rankOut.done => Len(rankOut.files) <= MaxResults

\* more processed files fitted the budget than the slice lets through
C21_Witness ==
    /\ rankOut.done
    /\ Len(rankOut.files) = MaxResults
    /\ Cardinality({r \in files : r.is_processed}) > MaxResults
    /\ SumColumn({r \in files : r.is_processed}, "tokens") <= rankIn.maxTokens

\* C22: on a store with no processed files getRelevantFiles returns the empty
\* list, for every query and budget.
C22_EmptyStoreEmptyList ==
    (rankOut.done /\ {r \in files : r.is_processed} = {}) => rankOut.files = <<>>

\* the call was made on an empty store with keywords and a budget to spend
C22_Witness ==
    /\ rankOut.done
    /\ files = {}
    /\ rankIn.maxTokens = MaxBudget
    /\ Cardinality(queryKeywords(rankIn.query)) = 2

-----------------------------------------------------------------------------
(* Statements about getCodebaseStats                                        *)

\* nothing is in flight: every processFile and clearCache called has finished
AtRest == clear.pc = "idle" /\ \A c \in DOMAIN calls : ~InFlight(c)

\* the calls were made one after the other, each when the one before had
\* finished, and no clearCache failed
OneAfterTheOther ==
    /\ clear.quiet
    /\ clear.outcome \in {"none", "resolved"}
    /\ \A c \in DOMAIN calls : calls[c].pre.quiet

\* the processFile calls that resolved true since the last clearCache
TrueCalls == {c \in DOMAIN calls : calls[c].outcome = "true" /\ calls[c].pre.cleared = clear.made}

\* the call that processed the current version of each processed path
CurrentCalls == {c \in TrueCalls : \A d \in TrueCalls : calls[d].path = calls[c].path => d <= c}

RECURSIVE SumOfCalls(_, _)
\* the lines ("lines") or tokens ("tokens") of the contents of a set of calls
SumOfCalls(cs, What) ==
    IF cs = {} THEN 0
    ELSE LET c == CHOOSE x \in cs : TRUE
         IN  (IF What = "lines" THEN Len(split(calls[c].content)) ELSE countTokens(calls[c].content))
             + SumOfCalls(cs \ {c}, What)

RECURSIVE SumCounts(_)
\* the sum of the counts of a breakdown
SumCounts(breakdown) ==
    IF DOMAIN breakdown = {} THEN 0
    ELSE LET k == CHOOSE x \in DOMAIN breakdown : TRUE
         IN  breakdown[k] + SumCounts([j \in DOMAIN breakdown \ {k} |-> breakdown[j]])

\* C23: after any sequence of completed processFile and clearCache calls,
\* getCodebaseStats reports totalFiles equal to the number of distinct
\* processed paths, totalLines and totalTokens equal to the sums of the lines
\* and tokens of their current versions, and category and extension counts
\* that each sum to totalFiles.
C23_StatsMatchProcessedPaths ==
    (AtRest /\ OneAfterTheOther) =>
        LET stats == getCodebaseStats(StatsRow(files), CountBy(files, "file_type"),
                                      CountBy(files, "extension"))
        IN  /\ stats.totalFiles = Cardinality(CurrentCalls)
            /\ stats.totalLines = SumOfCalls(CurrentCalls, "lines")
            /\ stats.totalTokens = SumOfCalls(CurrentCalls, "tokens")
            /\ SumCounts(stats.fileTypes) = stats.totalFiles
            /\ SumCounts(stats.extensions) = stats.totalFiles

-----------------------------------------------------------------------------
(* The chat context: ChatViewProvider._createContext                        *)

\* the first line of the overview block
OverviewHeader ==
    <<"*", "*", "C", "o", "d", "e", "b", "a", "s", "e", " ", "O", "v", "e",
      "r", "v", "i", "e", "w", ":", "*", "*">>

\* the labels of the overview's lines
TotalFilesLabel ==
    <<"\n", "-", " ", "T", "o", "t", "a", "l", " ", "F", "i", "l", "e", "s",
      ":", " ">>

\* second label
TotalLinesLabel ==
    <<"\n", "-", " ", "T", "o", "t", "a", "l", " ", "L", "i", "n", "e", "s",
      ":", " ">>

\* third label
TotalTokensLabel ==
    <<"\n", "-", " ", "T", "o", "t", "a", "l", " ", "T", "o", "k", "e", "n",
      "s", ":", " ">>

\* fourth label
FileTypesLabel ==
    <<"\n", "-", " ", "F", "i", "l", "e", " ", "T", "y", "p", "e", "s", ":",
      " ">>

\* fifth label
ExtensionsLabel ==
    <<"\n", "-", " ", "E", "x", "t", "e", "n", "s", "i", "o", "n", "s", ":",
      " ">>

\* the part pushed before the relevant files
RelevantHeader ==
    <<"\n", "*", "*", "R", "e", "l", "e", "v", "a", "n", "t", " ", "F", "i",
      "l", "e", "s", ":", "*", "*">>

\* the end of a relevant file's line
TokensSuffix ==
    <<" ", "t", "o", "k", "e", "n", "s", ")">>

\* the budget _createContext hands to getRelevantFiles
ContextBudget == 8000
\* relevantFiles.slice(0, 8)
ContextFiles == 8
\* Object.entries(stats.extensions).slice(0, 10)
ContextExtensions == 10

DigitChar(d) ==
    CASE d = 0 -> "0" [] d = 1 -> "1" [] d = 2 -> "2" [] d = 3 -> "3" [] d = 4 -> "4"
      [] d = 5 -> "5" [] d = 6 -> "6" [] d = 7 -> "7" [] d = 8 -> "8" [] OTHER -> "9"

RECURSIVE toLocaleString(_)
\* Number.prototype.toLocaleString, for the numbers below 1000 the model's
\* stores give, which get no group separator
toLocaleString(n) ==
    IF n < 10 THEN <<DigitChar(n)>>
    ELSE toLocaleString(n \div 10) \o <<DigitChar(n % 10)>>

RECURSIVE JoinWith(_, _)
\* Array.prototype.join(separator)
JoinWith(parts, separator) ==
    IF Len(parts) = 0 THEN <<>>
    ELSE IF Len(parts) = 1 THEN parts[1]
    ELSE parts[1] \o separator \o JoinWith(Tail(parts), separator)

\* the orders in which the keys of a breakdown may have been inserted: the
\* order in which the GROUP BY query returned its rows
Orders(keys) ==
    {s \in [1..Cardinality(keys) -> keys] :
        \A i, j \in 1..Cardinality(keys) : i # j => s[i] # s[j]}

\* Object.entries(breakdown).map(([key, count]) => `${key}(${count})`).join(', ')
\* over the first atMost entries, order being the order of the keys
EntriesText(breakdown, order, atMost) ==
    LET kept == slice(order, atMost)
    IN  JoinWith([i \in 1..Len(kept) |-> kept[i] \o <<"(">> \o toLocaleString(breakdown[kept[i]]) \o <<")">>],
                 <<",", " ">>)

\* the **Codebase Overview:** part
Overview(stats, typeOrder, extOrder) ==
    OverviewHeader
      \o TotalFilesLabel \o toLocaleString(stats.totalFiles)
      \o TotalLinesLabel \o toLocaleString(stats.totalLines)
      \o TotalTokensLabel \o toLocaleString(stats.totalTokens)
      \o FileTypesLabel \o EntriesText(stats.fileTypes, typeOrder, Cardinality(DOMAIN stats.fileTypes))
      \o ExtensionsLabel \o EntriesText(stats.extensions, extOrder, ContextExtensions)

\* `- ${file.filePath} (${file.fileType}, ${file.tokens.toLocaleString()} tokens)`
RelevantLine(file) ==
    <<"-", " ">> \o file.filePath \o <<" ", "(">> \o file.fileType \o <<",", " ">>
      \o toLocaleString(file.tokens) \o TokensSuffix

\* the parts pushed for the relevant files
RelevantParts(relevantFiles) ==
    IF Len(relevantFiles) > 0
    THEN LET shown == slice(relevantFiles, ContextFiles)
         IN  <<RelevantHeader>> \o [i \in 1..Len(shown) |-> RelevantLine(shown[i])]
    ELSE <<>>

\* a test for the empty store that looks at the tokens
NoTokens(stats) == stats.totalTokens = 0

\* if (stats.totalFiles === 0) return ''
NoFiles(stats) == stats.totalFiles = 0

\* what _createContext returns. reads is the fate of the store reads: "ok",
\* "stats" when getCodebaseStats rejects, "relevant" when getRelevantFiles
\* rejects; a rejection is caught and gives the empty string
createContext(stats, typeOrder, extOrder, relevantFiles, reads) ==
    IF reads = "stats" THEN <<>>
    ELSE IF NoFiles(stats) THEN <<>>
    ELSE IF reads = "relevant" THEN <<>>
    ELSE join(<<Overview(stats, typeOrder, extOrder)>> \o RelevantParts(relevantFiles))

\* the fates of the store reads of one _createContext call
ReadFates == {"ok", "stats", "relevant"}

\* a store in which the paths of held were processed, and _createContext is
\* about to be called with a query
InitContext ==
    /\ encoding \in BOOLEAN
    /\ \E held \in SUBSET RankPaths :
         \E contentOf \in [held -> RankContents] :
            /\ files = {FileRow(RankId(p), p, contentOf[p]) : p \in held}
            /\ file_chunks = UNION {NewChunkRows(RankId(p), p, contentOf[p]) : p \in held}
            /\ lastFileId = Cardinality(RankPaths)
    /\ calls = <<>>
    /\ clear = [pc |-> "idle", made |-> 0, outcome |-> "none", quiet |-> TRUE]
    /\ failures = 0
    /\ WorkspaceIdle
    /\ ScanIdle
    /\ StreamlitIdle
    /\ LlmIdle
    /\ ChatIdle
    /\ context \in [query : RankQueries, reads : ReadFates, done : {FALSE}, text : {<<>>}]
    /\ RankIdle
    /\ ChunkIdle

\* one call of _createContext on a store nothing else is working on: the
\* three queries of getCodebaseStats, the SELECT of getRelevantFiles, the text
CreateContext ==
    /\ ~context.done
    /\ LET stats == getCodebaseStats(StatsRow(files), CountBy(files, "file_type"),
                                     CountBy(files, "extension"))
       IN  \E typeOrder \in Orders(DOMAIN stats.fileTypes), extOrder \in Orders(DOMAIN stats.extensions),
              rows \in OrderedRows(files) :
              context' = [context EXCEPT
                            !.done = TRUE,
                            !.text = createContext(stats, typeOrder, extOrder,
                                        getRelevantFiles(rows, context.query, ContextBudget),
                                        context.reads)]
    /\ UNCHANGED <<encoding, streamlit, llm, chat, scan, ws, files, file_chunks, lastFileId, calls, clear, failures,
                   chunkIn, chunkOut, rankIn, rankOut>>

NextContext == CreateContext

SpecContext == InitContext /\ [][NextContext]_vars

\* C24: the context built for a chat query is the empty string whenever the
\* store holds no processed file, and is non-empty and contains the overview
\* block whenever it holds at least one and the store reads succeed.
C24_ContextEmptyIffNoFiles ==
    context.done =>
        /\ {r \in files : r.is_processed} = {} => context.text = <<>>
        /\ ({r \in files : r.is_processed} # {} /\ context.reads = "ok") =>
              /\ context.text # <<>>
              /\ startsWith(context.text, OverviewHeader \o TotalFilesLabel)

\* a context was built for a store holding one file with no tokens, with the
\* overview and a relevant file in it
C24_Witness ==
    /\ context.done
    /\ context.reads = "ok"
    /\ Cardinality(files) = 1
    /\ \A r \in files : r.tokens = 0
    /\ includes(context.text, RelevantHeader)

-----------------------------------------------------------------------------
(* getAllFiles                                                              *)
(*                                                                         *)
(* A directory tree is a record: name, kind ("dir", "file" or "other"),    *)
(* statOk (statSync on it succeeds), readable (readdirSync on it succeeds) *)
(* and items, the entries readdirSync returns, in its order.               *)

NameAPy == <<"a", ".", "p", "y">>
NameRMd == <<"R", ".", "M", "D">>
NameCBin == <<"c", ".", "b", "i", "n">>
NameSock == <<"s", "o", "c", "k">>
NameSrc == <<"s", "r", "c">>
NameHid == <<".", "h", "i", "d">>
NameDist == <<"d", "i", "s", "t">>
NameLib == <<"l", "i", "b">>
NameRoot == <<"/", "w">>
DirGit == <<".", "g", "i", "t">>
DirNodeModules == <<"n", "o", "d", "e", "_", "m", "o", "d", "u", "l", "e", "s">>
DirPycache == <<"_", "_", "p", "y", "c", "a", "c", "h", "e", "_", "_">>
DirDotVenv == <<".", "v", "e", "n", "v">>
DirVenv == <<"v", "e", "n", "v">>
DirBuild == <<"b", "u", "i", "l", "d">>

\* const excludedDirs = new Set([...])
excludedDirs == {DirGit, DirNodeModules, DirPycache, DirDotVenv, DirVenv, NameDist, DirBuild}

File(name, statOk) ==
    [name |-> name, kind |-> "file", statOk |-> statOk, readable |-> TRUE, items |-> <<>>]

Other(name) ==
    [name |-> name, kind |-> "other", statOk |-> TRUE, readable |-> TRUE, items |-> <<>>]

Dir(name, statOk, readable, items) ==
    [name |-> name, kind |-> "dir", statOk |-> statOk, readable |-> readable, items |-> items]

\* path.join(currentPath, item)
pathJoin(currentPath, item) == currentPath \o <<"/">> \o item

\* a directory test that leaves out the hidden-directory rule
SkippedByNameOnly(item) == item \in excludedDirs

\* the directories traverse does not enter:
\* excludedDirs.has(item) || item.startsWith('.')
SkippedDir(item) == item \in excludedDirs \/ startsWith(item, <<".">>)

RECURSIVE traverse(_, _)
RECURSIVE TraverseItems(_, _, _)
\* the for loop of traverse from item number i on: the paths it pushes. A
\* statSync that throws leaves the loop for the catch of this traverse call.
TraverseItems(currentPath, items, i) ==
    IF i > Len(items) THEN <<>>
    ELSE LET item == items[i]
             fullPath == pathJoin(currentPath, item.name)
             rest == TraverseItems(currentPath, items, i + 1)
         IN  IF ~item.statOk THEN <<>>
             ELSE IF item.kind = "dir"
             THEN (IF ~SkippedDir(item.name) THEN traverse(fullPath, item) ELSE <<>>) \o rest
             ELSE IF item.kind = "file"
             THEN (IF toLowerCase(extname(item.name)) \in supportedExtensions
                   THEN <<fullPath>> ELSE <<>>) \o rest
             ELSE rest

\* traverse(currentPath) on the directory dir: a readdirSync that throws is
\* caught and logged, and nothing is pushed for the directory
traverse(currentPath, dir) ==
    IF ~dir.readable THEN <<>> ELSE TraverseItems(currentPath, dir.items, 1)

\* getAllFiles(rootPath) on the tree root
getAllFiles(rootPath, root) == traverse(rootPath, root)

\* the sequences of at most n entries with different names
Listings(entries, n) ==
    UNION {{s \in [1..k -> entries] : \A i, j \in 1..k : i # j => s[i].name # s[j].name} :
           k \in 0..n}

\* most entries in one directory of the trees studied
MaxItems == 2

\* the directories two levels below the root
DeepDirs == {Dir(name, TRUE, TRUE, <<File(NameAPy, TRUE)>>) : name \in {NameLib, NameDist}}

\* what can go wrong on a directory: nothing, its statSync, its readdirSync
DirFates == {"ok", "stat", "read"}

\* the directories one level below the root
SubDirs ==
    {Dir(name, fate # "stat", fate # "read", items) :
        name \in {NameSrc, NameHid, NameDist}, fate \in DirFates,
        items \in Listings({File(NameAPy, TRUE), File(NameAPy, FALSE), File(NameCBin, TRUE)}
                           \cup DeepDirs, MaxItems)}

\* the trees getAllFiles is studied on
Trees ==
    {Dir(NameRoot, TRUE, readable, items) :
        readable \in BOOLEAN,
        items \in Listings({File(NameAPy, TRUE), File(NameRMd, TRUE), File(NameCBin, FALSE),
                            Other(NameSock)} \cup SubDirs, MaxItems)}

InitScan ==
    /\ encoding = TRUE
    /\ files = {}
    /\ file_chunks = {}
    /\ lastFileId = 0
    /\ calls = <<>>
    /\ clear = [pc |-> "idle", made |-> 0, outcome |-> "none", quiet |-> TRUE]
    /\ failures = 0
    /\ WorkspaceIdle
    /\ ContextIdle
    /\ scan \in [tree : Trees, done : {FALSE}, files : {<<>>}]
    /\ StreamlitIdle
    /\ LlmIdle
    /\ ChatIdle
    /\ RankIdle
    /\ ChunkIdle

\* one call of getAllFiles(rootPath)
GetAllFiles ==
    /\ ~scan.done
    /\ scan' = [scan EXCEPT !.done = TRUE,
                            !.files = getAllFiles(scan.tree.name, scan.tree)]
    /\ UNCHANGED <<encoding, streamlit, llm, chat, context, ws, files, file_chunks, lastFileId, calls, clear,
                   failures, chunkIn, chunkOut, rankIn, rankOut>>

NextScan == GetAllFiles

SpecScan == InitScan /\ [][NextScan]_vars

RECURSIVE EntriesUnder(_, _, _, _)
\* every entry of the tree below a directory, with its full path, the names
\* of the directories strictly below the root that lead to it (dirs) and
\* whether one of those directories could not be read or examined (lost)
EntriesUnder(currentPath, dirs, lost, items) ==
    UNION {LET item == items[i]
               fullPath == pathJoin(currentPath, item.name)
           IN  {[path |-> fullPath, node |-> item, dirs |-> dirs, lost |-> lost]}
               \cup (IF item.kind = "dir"
                     THEN EntriesUnder(fullPath, Append(dirs, item.name),
                                       lost \/ ~item.statOk \/ ~item.readable, item.items)
                     ELSE {})
           : i \in 1..Len(items)}

Entries(root) == EntriesUnder(root.name, <<>>, ~root.readable, root.items)

\* a regular file with a supported lower-cased extension that lies under no
\* excluded and no dot-named directory strictly below the root
Wanted(e) ==
    /\ e.node.kind = "file"
    /\ toLowerCase(extname(e.node.name)) \in supportedExtensions
    /\ \A k \in 1..Len(e.dirs) :
          e.dirs[k] \notin excludedDirs /\ ~startsWith(e.dirs[k], <<".">>)

\* no readdirSync and no statSync fails anywhere in the tree
NoScanFailure(root) ==
    /\ root.readable
    /\ \A e \in Entries(root) : e.node.statOk /\ e.node.readable

\* C25: getAllFiles returns only regular files with a supported lower-cased
\* extension that lie under no excluded and no dot-named directory strictly
\* below the root, and, when no directory read and no stat fails, it returns
\* every such file exactly once.
C25_ExactlyTheWantedFiles ==
    scan.done =>
        /\ \A i \in 1..Len(scan.files) :
              \E e \in Entries(scan.tree) : e.path = scan.files[i] /\ Wanted(e)
        /\ NoScanFailure(scan.tree) =>
              \A e \in Entries(scan.tree) :
                 Wanted(e) => Cardinality({i \in 1..Len(scan.files) : scan.files[i] = e.path}) = 1

\* a scan without failures that met an excluded directory, a dot-named
\* directory with a supported file in it, a file with an upper-case extension
\* and returned a file two levels below the root
C25_Witness ==
    /\ scan.done
    /\ NoScanFailure(scan.tree)
    /\ \E e \in Entries(scan.tree) :
          e.node.kind = "file" /\ ~Wanted(e) /\ NameHid \in {e.dirs[k] : k \in 1..Len(e.dirs)}
          /\ toLowerCase(extname(e.node.name)) \in supportedExtensions
    /\ \E i \in 1..Len(scan.files) : scan.files[i] = pathJoin(scan.tree.name, NameRMd)

\* C26: a failure to read a directory or to examine an entry is logged and
\* skips only that directory's subtree or that entry: every wanted file that
\* can itself be examined and lies under no directory that failed is returned.
C26_FailureSkipsOnlyItsSubtree ==
    scan.done =>
        \A e \in Entries(scan.tree) :
           (Wanted(e) /\ e.node.statOk /\ ~e.lost) =>
               \E i \in 1..Len(scan.files) : scan.files[i] = e.path

-----------------------------------------------------------------------------
(* The greedy selection of getRelevantFiles                                 *)

\* C27: the files getRelevantFiles includes are a prefix of the processed
\* files ordered by priority descending, then tokens ascending: the prefix
\* fits the budget, inclusion stops at the first file whose tokens would take
\* the running total over the budget (or at the cap of the slice), and no
\* file after that one is included even if it would fit.
C27_GreedyPrefix ==
    rankOut.done =>
        \E rows \in OrderedRows(files) : \E k \in 0..Len(rows) :
            /\ Len(rankOut.files) = k
            /\ \A i \in 1..k : rankOut.files[i] = FileInfo(rows[i])
            /\ SumTokens(SubSeq(rows, 1, k)) <= rankIn.maxTokens
            /\ (k < Len(rows) /\ k < MaxResults) =>
                  SumTokens(SubSeq(rows, 1, k)) + rows[k + 1].tokens > rankIn.maxTokens

\* the first file of the order did not fit and ended the selection, although
\* a file after it would have fitted the budget
C27_Witness ==
    /\ rankOut.done
    /\ rankOut.files = <<>>
    /\ rankIn.maxTokens > 0
    /\ \E r \in files : r.is_processed /\ r.tokens > 0 /\ r.tokens <= rankIn.maxTokens

\* C28: two returned files with equal relevance score stand in the order of
\* the greedy inclusion: the earlier one has the higher priority or, at equal
\* priority, at most the tokens of the later one.
C28_TiesKeepInclusionOrder ==
    rankOut.done =>
        \A i, j \in 1..Len(rankOut.files) :
            (i < j /\ InfoScore(rankOut.files[i]) = InfoScore(rankOut.files[j])) =>
                \/ rankOut.files[i].priority > rankOut.files[j].priority
                \/ /\ rankOut.files[i].priority = rankOut.files[j].priority
                   /\ rankOut.files[i].tokens <= rankOut.files[j].tokens

\* two files of equal score and equal priority were returned, the one with
\* fewer tokens first
C28_Witness ==
    /\ rankOut.done
    /\ \E i, j \in 1..Len(rankOut.files) :
          /\ i < j
          /\ InfoScore(rankOut.files[i]) = InfoScore(rankOut.files[j])
          /\ rankOut.files[i].priority = rankOut.files[j].priority
          /\ rankOut.files[i].tokens < rankOut.files[j].tokens

-----------------------------------------------------------------------------
(* The close condition of smartChunkContent                                 *)

RECURSIVE LineTokens(_, _, _)
\* the sum of the per-line token counts of lines a..b (0-based)
LineTokens(lines, a, b) ==
    IF a > b THEN 0 ELSE countTokens(lines[a + 1]) + LineTokens(lines, a + 1, b)

\* the running total when line i (0-based, i >= 1) is reached: the tokens of
\* the lines from the start of the chunk that holds line i - 1 up to line i - 1
RunningTotal(chunks, lines, i) ==
    LET c == CHOOSE j \in ChunksHolding(chunks, i - 1) : TRUE
    IN  LineTokens(lines, chunks[c].startLine, i - 1)

\* condition (a) or (b) at line i
CloseCondition(chunks, lines, i, extension, maxTokens) ==
    \/ /\ isBoundary(lines[i + 1], extension)
       /\ 2 * RunningTotal(chunks, lines, i) > maxTokens
    \/ RunningTotal(chunks, lines, i) + countTokens(lines[i + 1]) > maxTokens

\* C29: a chunk is closed before line i, line i starting the next chunk,
\* exactly when the current chunk is non-empty (i >= 1) and either line i
\* matches a boundary pattern with the running total above max_tokens * 0.5,
\* or the running total plus line i's tokens exceeds max_tokens; and every
\* chunk of more than one line has per-line token counts summing to at most
\* max_tokens.
C29_CloseCondition ==
    chunkOut.done =>
        LET lines == split(chunkIn.content)
            chunks == chunkOut.chunks
        IN  /\ \A i \in 1..(Len(lines) - 1) :
                  /\ Cardinality(ChunksHolding(chunks, i - 1)) = 1
                  /\ (\E j \in 1..Len(chunks) : chunks[j].startLine = i)
                        <=> CloseCondition(chunks, lines, i, chunkIn.extension, chunkIn.maxTokens)
            /\ \A j \in 1..Len(chunks) :
                  chunks[j].endLine > chunks[j].startLine =>
                     /\ chunks[j].tokens = LineTokens(lines, chunks[j].startLine, chunks[j].endLine)
                     /\ chunks[j].tokens <= chunkIn.maxTokens

\* a chunk was closed at a boundary line that would still have fitted, a
\* boundary line met a chunk at most half full and closed nothing, and a
\* chunk of several lines was emitted
C29_Witness ==
    /\ chunkOut.done
    /\ LET lines == split(chunkIn.content)
           chunks == chunkOut.chunks
       IN  /\ \E i \in 1..(Len(lines) - 1) :
                 /\ \E j \in 1..Len(chunks) : chunks[j].startLine = i
                 /\ RunningTotal(chunks, lines, i) + countTokens(lines[i + 1]) <= chunkIn.maxTokens
           /\ \E i \in 1..(Len(lines) - 1) :
                 /\ isBoundary(lines[i + 1], chunkIn.extension)
                 /\ \A j \in 1..Len(chunks) : chunks[j].startLine # i
           /\ \E j \in 1..Len(chunks) : chunks[j].endLine > chunks[j].startLine

-----------------------------------------------------------------------------
(* Statements about determineChunkType                                      *)

\* the content holds one of the keywords of the first rule
HasDeclarationKeyword(content) ==
    \E k \in {KwClass, KwFunction, KwDef} : includes(toLowerCase(content), k)

\* the content holds one of the keywords of the second rule
HasImportKeyword(content) ==
    \E k \in {KwImport, KwInclude, KwRequire} : includes(toLowerCase(content), k)

\* the content begins, after white space, with a comment marker
BeginsWithCommentMarker(content) ==
    \E m \in {Hash1, SlashSlash, SlashStar} : startsWith(trim(content), m)

\* one of the lines of the content is a markdown heading line
HasHeadingLine(content) ==
    \E k \in 1..Len(split(content)) : startsWith(split(content)[k], Hash1)

\* the tag the rules of the chunk kinds give, first match first
RuleTag(content, extension) ==
    IF HasDeclarationKeyword(content) THEN "declaration"
    ELSE IF HasImportKeyword(content) THEN "imports"
    ELSE IF BeginsWithCommentMarker(content) THEN "comments"
    ELSE IF extension = ExtMd /\ includes(content, Hash1) THEN "heading"
    ELSE "general"

\* C30: each chunk is tagged by the first matching rule in the order
\* declaration keyword -> declaration, import/include keyword -> imports,
\* leading comment marker -> comments, .md with '#' -> heading, else general;
\* in particular a .md chunk with no declaration or import keyword that
\* contains a markdown heading line is tagged heading.
C30_TaggedByFirstRule ==
    chunkOut.done =>
        \A j \in 1..Len(chunkOut.chunks) :
            LET chunk == chunkOut.chunks[j]
            IN  /\ chunk.chunkType = RuleTag(chunk.content, chunkIn.extension)
                /\ (/\ chunkIn.extension = ExtMd
                    /\ ~HasDeclarationKeyword(chunk.content)
                    /\ ~HasImportKeyword(chunk.content)
                    /\ HasHeadingLine(chunk.content)) => chunk.chunkType = "heading"

-----------------------------------------------------------------------------
(* Statements about the order of the steps within one pass                  *)

\* a database step of call c is queued or running
StepPending(c) == calls[c].pc # "done"

\* C31: within one processWorkspace call the files are processed one at a
\* time in list order: processFile is called on the next file of the list
\* only when every earlier call of the pass has settled, and a call that
\* settles (resolved or rejected) has no database step still pending.
C31_OneFileAtATime ==
    [][/\ Len(calls') > Len(calls) =>
             /\ \A c \in DOMAIN calls : calls[c].outcome # "pending"
             /\ calls'[Len(calls')].path = ws'.files[Len(calls')]
       /\ \A c \in DOMAIN calls :
             (calls[c].outcome = "pending" /\ calls'[c].outcome # "pending") =>
                 ~StepPending(c)']_vars

-----------------------------------------------------------------------------
(* clearCache while processFile is in flight                                *)

\* a clearCache call and a processFile call have overlapped
ClearOverlapped ==
    \/ ~clear.quiet
    \/ \E c \in DOMAIN calls : calls[c].pre.cleared = clear.made - 1 /\ ~calls[c].pre.quiet
                               /\ clear.made > 0

\* no chunk row without a file row, and every processed file row with the
\* complete chunk set of the content it was written for
StoreConsistent ==
    /\ \A r \in file_chunks : \E f \in files : f.id = r.file_id
    /\ \A f \in files :
          f.is_processed =>
             \E c \in DOMAIN calls :
                /\ calls[c].fileId = f.id
                /\ {r \in file_chunks : r.file_id = f.id}
                      = NewChunkRows(f.id, calls[c].path, calls[c].content)

\* C32: if clearCache runs while a processFile call is in flight, then once
\* both have settled the store is consistent: no chunk row without a matching
\* file row, and no file row marked processed whose chunk set is missing or
\* partial.
C32_ConsistentAfterOverlap ==
    (/\ clear.made > 0
     /\ clear.pc = "idle"
     /\ \A c \in DOMAIN calls : ~InFlight(c)
     /\ ClearOverlapped) => StoreConsistent

-----------------------------------------------------------------------------
(* getCodebaseStats while the store is being written                        *)
(*                                                                         *)
(* The getCodebaseStats studied is the one processWorkspace awaits after   *)
(* its loop, on a workspace in which getAllFiles found no file; processFile *)
(* calls of the save handler and the clearCache command run meanwhile. The *)
(* database steps of those succeed; a query of getCodebaseStats may fail.   *)

NextStats ==
    \/ \E proceed \in BOOLEAN :
           ProcessWorkspaceStart(<<>>, proceed, <<"x">>, "none", DefaultMaxFileSize)
    \/ \E ok \in BOOLEAN : WorkspaceStatsQuery(ok)
    \/ \E filePath \in StorePaths : ProcessFileStart(filePath, <<"x">>, "none", DefaultMaxFileSize)
    \/ \E c \in DOMAIN calls : DbFileReplace(c, TRUE)
    \/ \E c \in DOMAIN calls : DbChunkDelete(c, TRUE)
    \/ \E c \in DOMAIN calls : \E index \in calls[c].pending : DbChunkInsert(c, index, TRUE)
    \/ ClearCacheStart
    \/ DbClearChunks(TRUE)
    \/ DbClearFiles(TRUE)

SpecStats == Init /\ [][NextStats]_vars

\* what the getCodebaseStats of the pass resolved with
ResolvedStats == getCodebaseStats(ws.seen[1], ws.seen[2], ws.seen[3])

\* C33: getCodebaseStats returns a snapshot of one store state even when
\* processFile or clearCache steps run between its three queries: in every
\* result it resolves with, the category counts and the extension counts each
\* sum to totalFiles.
C33_StatsAreOneSnapshot ==
    ws.outcome = "resolved" =>
        /\ SumCounts(ResolvedStats.fileTypes) = ResolvedStats.totalFiles
        /\ SumCounts(ResolvedStats.extensions) = ResolvedStats.totalFiles

-----------------------------------------------------------------------------
(* extension.ts: the embedded Streamlit panel and its child process         *)
(*                                                                         *)
(* streamlit.panel is streamlitPanel # null; streamlit.process is the      *)
(* number of the child process streamlitProcess refers to, 0 for null;     *)
(* streamlit.procs holds, for every child process spawned so far, where it *)
(* is: "running", "killed" (signalled, its close event still to come),     *)
(* "failing" (the spawn failed, its error event still to come), "errored"  *)
(* (error event delivered, close event still to come) or "exited".         *)

\* most child processes spawned in one run of the extension
MaxProcs == 3

\* streamlitProcess.kill(): a running process is signalled, any other is left
Kill(procs, p) ==
    IF p # 0 /\ procs[p] = "running" THEN [procs EXCEPT ![p] = "killed"] ELSE procs

\* startEmbeddedStreamlitProcess: nothing when streamlitProcess is set or the
\* app file is missing, else spawn and keep the ChildProcess
startEmbeddedStreamlitProcess(s, appExists, spawnOk) ==
    IF s.process # 0 \/ ~appExists THEN s
    ELSE [s EXCEPT !.procs = Append(@, IF spawnOk THEN "running" ELSE "failing"),
                   !.process = Len(s.procs) + 1]

\* the launchStreamlitApp command: createEmbeddedStreamlitPanel
LaunchPanel(appExists, spawnOk) ==
    /\ streamlit.active
    /\ Len(streamlit.procs) < MaxProcs
    /\ streamlit' = IF streamlit.panel THEN streamlit
                    ELSE startEmbeddedStreamlitProcess([streamlit EXCEPT !.panel = TRUE],
                                                       appExists, spawnOk)
    /\ UNCHANGED <<encoding, storeVars, chunkIn, chunkOut, rankIn, rankOut, llm, chat>>

\* the panel is closed: its onDidDispose listener
PanelDispose ==
    /\ streamlit.active
    /\ streamlit.panel
    /\ streamlit' = [streamlit EXCEPT !.panel = FALSE,
                                      !.procs = Kill(@, streamlit.process),
                                      !.process = 0]
    /\ UNCHANGED <<encoding, storeVars, chunkIn, chunkOut, rankIn, rankOut, llm, chat>>

\* the close handler: streamlitProcess = null
CloseClears(s, p) == 0

\* the close event of child process p: it exited by itself, after a signal, or
\* after a failed spawn
ProcessClose(p) ==
    /\ streamlit.procs[p] \in {"running", "killed", "errored"}
    /\ streamlit' = [streamlit EXCEPT !.procs[p] = "exited",
                                      !.process = CloseClears(streamlit, p)]
    /\ UNCHANGED <<encoding, storeVars, chunkIn, chunkOut, rankIn, rankOut, llm, chat>>

\* the error event of child process p, whose spawn failed: the handler shows
\* the message and leaves streamlitProcess as it is
ProcessError(p) ==
    /\ streamlit.procs[p] = "failing"
    /\ streamlit' = [streamlit EXCEPT !.procs[p] = "errored"]
    /\ UNCHANGED <<encoding, storeVars, chunkIn, chunkOut, rankIn, rankOut, llm, chat>>

\* the extension is deactivated: deactivate() and the cleanup Disposable
Deactivate ==
    /\ streamlit.active
    /\ streamlit' = [streamlit EXCEPT !.active = FALSE,
                                      !.procs = Kill(@, streamlit.process),
                                      !.process = 0]
    /\ UNCHANGED <<encoding, storeVars, chunkIn, chunkOut, rankIn, rankOut, llm, chat>>

NextStreamlit ==
    \/ \E appExists \in BOOLEAN, spawnOk \in BOOLEAN : LaunchPanel(appExists, spawnOk)
    \/ PanelDispose
    \/ \E p \in DOMAIN streamlit.procs : ProcessClose(p)
    \/ \E p \in DOMAIN streamlit.procs : ProcessError(p)
    \/ Deactivate

SpecStreamlit == Init /\ [][NextStreamlit]_vars

\* the child processes that are running and have not been signalled
RunningProcs == {p \in DOMAIN streamlit.procs : streamlit.procs[p] = "running"}

\* C34: over any sequence of launch-panel, panel-dispose, process-close,
\* process-error and deactivate events, a Streamlit child process that is
\* still running is the one streamlitProcess refers to, and at most one is
\* running at a time; a close event of an earlier process never clears the
\* reference to a newer running one.
C34_RunningProcessIsReferenced ==
    /\ \A p \in RunningProcs : streamlit.process = p
    /\ Cardinality(RunningProcs) <= 1

-----------------------------------------------------------------------------
(* llmService.ts: manageContextWindow                                       *)

\* Math.ceil(text.length / 4)
estimateTokens(text) == (Len(text) + 3) \div 4

\* messages.find(m => m.role === 'system'): the index of the first, 0 for none
RECURSIVE FindSystem(_, _)
FindSystem(messages, i) ==
    IF i > Len(messages) THEN 0
    ELSE IF messages[i].role = "system" THEN i
    ELSE FindSystem(messages, i + 1)

IsNotSystem(m) == m.role # "system"

\* messages.filter(m => m.role !== 'system')
NonSystem(messages) == SelectSeq(messages, IsNotSystem)

\* a message put at the end of the kept list
PushBack(keptMessages, message) == Append(keptMessages, message)

\* keptMessages.unshift(message)
Unshift(keptMessages, message) == <<message>> \o keptMessages

RECURSIVE KeepRecent(_, _, _, _, _)
\* the loop from the last non-system message (i is 0-based) towards the first
KeepRecent(nonSystemMessages, i, totalTokens, keptMessages, maxTokens) ==
    IF i < 0 THEN keptMessages
    ELSE LET message == nonSystemMessages[i + 1]
             messageTokens == estimateTokens(message.content)
         IN  IF totalTokens + messageTokens <= maxTokens
             THEN KeepRecent(nonSystemMessages, i - 1, totalTokens + messageTokens,
                             Unshift(keptMessages, message), maxTokens)
             ELSE keptMessages

manageContextWindow(messages, maxTokens) ==
    IF Len(messages) = 0 THEN messages
    ELSE LET s == FindSystem(messages, 1)
             totalTokens == IF s # 0 THEN estimateTokens(messages[s].content) ELSE 0
             first == IF s # 0 THEN <<messages[s]>> ELSE <<>>
             nonSystemMessages == NonSystem(messages)
             keptMessages == KeepRecent(nonSystemMessages, Len(nonSystemMessages) - 1,
                                        totalTokens, first, maxTokens)
         IN  IF s # 0 /\ keptMessages[1].role # "system"
             THEN <<messages[s]>> \o NonSystem(keptMessages)
             ELSE keptMessages

\* most messages in a call, largest maxTokens of a call
MaxMessages == 4
MaxWindow == 3

WindowRoles == {"system", "user", "assistant"}
WindowContents == {<<"a">>, <<"a", "a", "a", "a", "a">>}

WindowMessages ==
    UNION {[1..n -> [role : WindowRoles, content : WindowContents]] : n \in 0..MaxMessages}

InitWindow ==
    /\ encoding = TRUE
    /\ files = {}
    /\ file_chunks = {}
    /\ lastFileId = 0
    /\ calls = <<>>
    /\ clear = [pc |-> "idle", made |-> 0, outcome |-> "none", quiet |-> TRUE]
    /\ failures = 0
    /\ WorkspaceIdle
    /\ ContextIdle
    /\ ScanIdle
    /\ StreamlitIdle
    /\ ChatIdle
    /\ llm \in [messages : WindowMessages, maxTokens : 0..MaxWindow, done : {FALSE},
                kept : {<<>>}]
    /\ RankIdle
    /\ ChunkIdle

\* one call of manageContextWindow
ManageContextWindow ==
    /\ ~llm.done
    /\ llm' = [llm EXCEPT !.done = TRUE,
                          !.kept = manageContextWindow(llm.messages, llm.maxTokens)]
    /\ UNCHANGED <<encoding, storeVars, chunkIn, chunkOut, rankIn, rankOut, streamlit, chat>>

NextWindow == ManageContextWindow

SpecWindow == InitWindow /\ [][NextWindow]_vars

RECURSIVE WindowTokens(_)
\* the estimated tokens of a list of messages
WindowTokens(messages) ==
    IF messages = <<>> THEN 0
    ELSE estimateTokens(messages[1].content) + WindowTokens(Tail(messages))

\* the last k of a list
LastOf(xs, k) == SubSeq(xs, Len(xs) - k + 1, Len(xs))

\* C35: manageContextWindow returns the system message (if one is present)
\* first, followed by a contiguous suffix of the non-system messages in their
\* original order, the most recent ones, stopping at the first that does not
\* fit; whenever the system message alone fits within maxTokens, the
\* estimated tokens of the returned messages do not exceed maxTokens.
C35_SystemThenRecentSuffix ==
    llm.done =>
        LET s == FindSystem(llm.messages, 1)
            head == IF s # 0 THEN <<llm.messages[s]>> ELSE <<>>
            rest == NonSystem(llm.messages)
        IN  /\ \E k \in 0..Len(rest) :
                  /\ llm.kept = head \o LastOf(rest, k)
                  /\ WindowTokens(head) + WindowTokens(LastOf(rest, k)) <= llm.maxTokens
                        \/ k = 0
                  /\ k < Len(rest) =>
                        WindowTokens(head) + WindowTokens(LastOf(rest, k + 1)) > llm.maxTokens
            /\ WindowTokens(head) <= llm.maxTokens =>
                  WindowTokens(llm.kept) <= llm.maxTokens

\* a call whose system message was not the first message, that kept two
\* different recent messages and dropped an older one
C35_Witness ==
    /\ llm.done
    /\ FindSystem(llm.messages, 1) > 1
    /\ Len(llm.kept) = 3
    /\ llm.kept[2] # llm.kept[3]
    /\ Len(NonSystem(llm.messages)) = 3

-----------------------------------------------------------------------------
(* chatViewProvider.ts: the messages of the webview                         *)
(*                                                                         *)
(* chat.messages is this._messages, each message with its role, the number *)
(* of the sendMessage it belongs to and, for an assistant message, whether *)
(* it is the model's response or an error text. chat.posted is what was    *)
(* posted to the webview, in order. chat.reqs records, for every           *)
(* sendMessage received, its text, where its handler is ("context": at the *)
(* await of _createContext, "generate": at the await of generateResponse,  *)
(* "done": returned) and how many assistant messages it pushed.            *)
(* chat.cleared counts the clearChat messages.                             *)

\* most sendMessage and clearChat messages received
MaxRequests == 3
MaxChatClears == 1

\* the texts a sendMessage carries
ChatTexts == {<<>>, <<" ">>, <<"h", "i">>}

UserMessage(r) == [role |-> "user", req |-> r, kind |-> "text"]

AssistantMessage(r, kind) == [role |-> "assistant", req |-> r, kind |-> kind]

Post(type, r) == [type |-> type, req |-> r]

\* a catch block that pushes nothing
CatchPushesNothing(messages, r) == messages

\* the catch block: this._messages.push(errorMessage)
CatchPushes(messages, r) == Append(messages, AssistantMessage(r, "error"))

\* onDidReceiveMessage with type sendMessage: _handleUserMessage up to its
\* first await; a blank message returns at once
SendMessage(text) ==
    /\ Len(chat.reqs) < MaxRequests
    /\ LET r == Len(chat.reqs) + 1
       IN  IF trim(text) = <<>>
           THEN chat' = [chat EXCEPT !.reqs = Append(@, [text |-> text, pc |-> "done", answers |-> 0])]
           ELSE chat' = [chat EXCEPT
                           !.messages = Append(@, UserMessage(r)),
                           !.posted = @ \o <<Post("addMessage", r), Post("showTyping", r)>>,
                           !.reqs = Append(@, [text |-> text, pc |-> "context", answers |-> 0])]
    /\ UNCHANGED <<encoding, storeVars, chunkIn, chunkOut, rankIn, rankOut, streamlit, llm>>

\* _createContext has resolved (it catches its own failures and resolves with
\* ''): the prompt and the window are prepared and generateResponse is called
ContextDone(r) ==
    /\ chat.reqs[r].pc = "context"
    /\ chat' = [chat EXCEPT !.reqs[r].pc = "generate"]
    /\ UNCHANGED <<encoding, storeVars, chunkIn, chunkOut, rankIn, rankOut, streamlit, llm>>

\* generateResponse has settled: the assistant message of the try block or
\* the error message of the catch block, then the finally block
GenerateDone(r, ok) ==
    /\ chat.reqs[r].pc = "generate"
    /\ LET messages == IF ok THEN Append(chat.messages, AssistantMessage(r, "response"))
                       ELSE CatchPushes(chat.messages, r)
           pushed == Len(messages) - Len(chat.messages)
       IN  chat' = [chat EXCEPT
                       !.messages = messages,
                       !.posted = @ \o (IF pushed > 0 THEN <<Post("addMessage", r)>> ELSE <<>>)
                                    \o <<Post("hideTyping", r)>>,
                       !.reqs[r].pc = "done",
                       !.reqs[r].answers = @ + pushed]
    /\ UNCHANGED <<encoding, storeVars, chunkIn, chunkOut, rankIn, rankOut, streamlit, llm>>

\* onDidReceiveMessage with type clearChat: _clearChat
ClearChat ==
    /\ chat.cleared < MaxChatClears
    /\ chat' = [chat EXCEPT !.messages = <<>>,
                            !.posted = Append(@, Post("clearMessages", 0)),
                            !.cleared = @ + 1]
    /\ UNCHANGED <<encoding, storeVars, chunkIn, chunkOut, rankIn, rankOut, streamlit, llm>>

NextChat ==
    \/ \E text \in ChatTexts : SendMessage(text)
    \/ \E r \in DOMAIN chat.reqs : ContextDone(r)
    \/ \E r \in DOMAIN chat.reqs, ok \in BOOLEAN : GenerateDone(r, ok)
    \/ ClearChat

SpecChat == Init /\ [][NextChat]_vars

\* the awaited promises settle: the database answers every query of
\* _createContext, and the request of generateResponse has a timeout
SpecChatFair ==
    /\ SpecChat
    /\ \A r \in 1..MaxRequests : WF_vars(r \in DOMAIN chat.reqs /\ ContextDone(r))
    /\ \A r \in 1..MaxRequests :
          WF_vars(r \in DOMAIN chat.reqs /\ \E ok \in BOOLEAN : GenerateDone(r, ok))

\* the positions in the posts of the posts of one type for request r
PostsOf(type, r) == {i \in DOMAIN chat.posted : chat.posted[i] = Post(type, r)}

Blank(r) == trim(chat.reqs[r].text) = <<>>

\* request r has been answered: one assistant message pushed, and hideTyping
\* posted once, after its showTyping
Answered(r) ==
    /\ chat.reqs[r].pc = "done"
    /\ chat.reqs[r].answers = 1
    /\ Cardinality(PostsOf("hideTyping", r)) = 1
    /\ \A i \in PostsOf("showTyping", r), j \in PostsOf("hideTyping", r) : i < j

\* C36: every non-blank user message handled by _handleUserMessage eventually
\* leads to exactly one assistant message being appended to the history (the
\* response or an error text) and to a hideTyping posted after its
\* showTyping; a blank message changes nothing and posts nothing.
C36_EveryMessageAnswered ==
    /\ [](\A r \in DOMAIN chat.reqs :
             /\ chat.reqs[r].answers <= 1
             /\ chat.reqs[r].pc = "done" /\ ~Blank(r) => Answered(r)
             /\ Blank(r) =>
                   /\ \A i \in DOMAIN chat.posted : chat.posted[i].req # r
                   /\ \A i \in DOMAIN chat.messages : chat.messages[i].req # r)
    /\ \A r \in 1..MaxRequests :
          (r \in DOMAIN chat.reqs /\ ~Blank(r)) ~> (r \in DOMAIN chat.reqs /\ Answered(r))

\* a blank message, a message answered with an error text and a message
\* answered with the model's response
C36_Witness ==
    /\ Len(chat.reqs) = 3
    /\ \E r \in DOMAIN chat.reqs : Blank(r)
    /\ \E i \in DOMAIN chat.messages : chat.messages[i].kind = "error"
    /\ \E i \in DOMAIN chat.messages : chat.messages[i].kind = "response"
    /\ \A r \in DOMAIN chat.reqs : chat.reqs[r].pc = "done"

\* an assistant message stands right after the user message it answers
FollowsItsQuestion(i) ==
    /\ i > 1
    /\ chat.messages[i - 1] = UserMessage(chat.messages[i].req)

\* the handlers that have not returned yet
Outstanding == {r \in DOMAIN chat.reqs : chat.reqs[r].pc # "done"}

\* C37: when a second sendMessage arrives while the first is still awaiting
\* its response, the chat stays coherent: in the history (not cleared
\* meanwhile) each assistant message immediately follows the user message it
\* answers, and hideTyping is not posted while a request is still outstanding.
C37_CoherentUnderOverlap ==
    [][/\ chat'.cleared = 0 =>
             \A i \in DOMAIN chat'.messages :
                chat'.messages[i].role = "assistant" => FollowsItsQuestion(i)'
       /\ (Len(chat'.posted) > Len(chat.posted)
           /\ chat'.posted[Len(chat'.posted)].type = "hideTyping") => Outstanding' = {}]_vars

====
